---- MODULE Spec2Model ----
(***************************************************************************)
(* A model of the CLI/.NET metadata parser of libyara's dotnet module      *)
(* (src/yara-4.2.3/libyara/modules/dotnet/dotnet.c).                        *)
(*                                                                         *)
(* The input buffer pe->data is the byte sequence `data`; a pointer into   *)
(* it is modelled by its offset from pe->data, so offset p is the byte     *)
(* data[p + 1] and pe->data_size is Len(data).  The PE collaborator        *)
(* (directory lookup, RVA translation, PE header fields) is the record     *)
(* `pe`.  The output object pe->object is the function `obj` from keys     *)
(* <<field, index, subfield>> to values; a string value is the sequence    *)
(* of its bytes.  Every byte range the code dereferences is recorded by    *)
(* the action that models the dereference; `oob` becomes TRUE as soon as   *)
(* one of them leaves [0, data_size).                                      *)
(***************************************************************************)
EXTENDS Integers, Sequences, FiniteSets, TLC

VARIABLES
  data,     \* pe->data[0 .. data_size - 1]
  pe,       \* what the PE collaborator answers for this image
  pc,       \* position of dotnet_parse_com
  obj,      \* pe->object: the fields set so far
  oob,      \* some byte outside [0, data_size) has been dereferenced
  com,      \* locals of dotnet_parse_com
  sh,       \* locals of dotnet_parse_stream_headers
  gd,       \* locals of dotnet_parse_guid
  td,       \* locals of dotnet_parse_tilde / dotnet_parse_tilde_2
  us,       \* locals of dotnet_parse_us
  stages,   \* the stages dotnet_parse_com has entered, in order
  run,      \* 1: first call of dotnet_parse_com, 2: second call
  obj1,     \* the output of the first call
  data2     \* the buffer handed to the second call

vars == <<data, pe, pc, obj, oob, com, sh, gd, td, us, stages, run, obj1, data2>>

(***************************************************************************)
(* Bounds of the checked inputs.                                           *)
(***************************************************************************)
MaxUsLen == 5       \* longest #US heap of the user-string inputs
MaxBlobLen == 4     \* longest buffer of the blob decoder inputs
NumJunk == 2        \* how many values an unassigned local is tried with

\* the values tried for a local the code reads without having assigned it
JunkVals == 0..(NumJunk - 1)

(***************************************************************************)
(* Arithmetic helpers.                                                     *)
(***************************************************************************)
NULL == -1
Huge == 2^29        \* stands for every 32-bit value >= 2^29 (no buffer is that long)

Min(S) == CHOOSE x \in S : \A y \in S : x <= y
Max2(a, b) == IF a > b THEN a ELSE b
Bit(v, k) == (v \div (2^k)) % 2            \* bit k of v
Dec(raw) == IF raw > 0 THEN raw - 1 ELSE 0  \* if (x > 0) x--

data_size == Len(data)

InBuf(p) == p >= 0 /\ p < data_size
Byte(p) == IF InBuf(p) THEN data[p + 1] ELSE 0
U16(p) == Byte(p) + 256 * Byte(p + 1)
\* a little-endian DWORD; values of 2^29 and more are all represented by Huge
U32(p) == IF Byte(p + 3) >= 32 THEN Huge
          ELSE Byte(p) + 256 * Byte(p + 1) + 65536 * Byte(p + 2) + 16777216 * Byte(p + 3)
Bytes(p, n) == [k \in 1..n |-> Byte(p + k - 1)]

\* the byte ranges <<p, n>> of `rd` that leave the buffer
Outside(rd) == {r \in rd : r[2] > 0 /\ (r[1] < 0 \/ r[1] + r[2] > data_size)}

\* Bounds Oracle (yara/pe_utils.h): offset >= start and offset + length <= end
fits_in_pe(p, n) == n <= data_size /\ p >= 0 /\ p + n <= data_size

(***************************************************************************)
(* The output object.                                                      *)
(***************************************************************************)
Key(f, i, s) == <<f, i, s>>
Fld(f) == Key(f, -1, "")
SetVal(o, k, v) == [x \in (DOMAIN o) \cup {k} |-> IF x = k THEN v ELSE o[x]]
Has(o, k) == k \in DOMAIN o
NoFields == [x \in {} |-> 0]

(***************************************************************************)
(* dotnet_parse_blob_entry: the compressed length prefix at `offset`.      *)
(* size = 0 reports failure; `length` is then left unassigned (jnk).       *)
(***************************************************************************)
Blob4Guard(offset) == offset + 4 < data_size

BlobMutDec(offset, jnk) ==
  IF ~fits_in_pe(offset, 1) THEN [size |-> 0, length |-> jnk, rd |-> {}]
  ELSE LET b0 == Byte(offset) IN
    IF b0 < 128 THEN [size |-> 1, length |-> b0, rd |-> {<<offset, 1>>}]
    ELSE IF b0 < 192 THEN
      IF ~fits_in_pe(offset, 2) THEN [size |-> 0, length |-> jnk, rd |-> {<<offset, 1>>}]
      ELSE [size |-> 2, length |-> 256 * (b0 % 64) + Byte(offset + 1),
            rd |-> {<<offset, 2>>}]
    ELSE [size |-> 0, length |-> jnk, rd |-> {<<offset, 1>>}]

BlobMutE0(offset, jnk) ==
  IF ~fits_in_pe(offset, 1) THEN [size |-> 0, length |-> jnk, rd |-> {}]
  ELSE LET b0 == Byte(offset) IN
    IF b0 < 128 THEN
      [size |-> 1, length |-> IF b0 > 0 THEN b0 - 1 ELSE 0, rd |-> {<<offset, 1>>}]
    ELSE [size |-> 1, length |-> b0 - 1, rd |-> {<<offset, 1>>}]

dotnet_parse_blob_entry(offset, jnk) ==
  IF ~fits_in_pe(offset, 1) THEN [size |-> 0, length |-> jnk, rd |-> {}]
  ELSE LET b0 == Byte(offset) IN
    IF b0 < 128 THEN                                   \* (*offset & 0x80) == 0x00
      [size |-> 1, length |-> IF b0 > 0 THEN b0 - 1 ELSE 0, rd |-> {<<offset, 1>>}]
    ELSE IF b0 < 192 THEN                              \* (*offset & 0xC0) == 0x80
      IF ~fits_in_pe(offset, 2) THEN [size |-> 0, length |-> jnk, rd |-> {<<offset, 1>>}]
      ELSE LET raw == 256 * (b0 % 64) + Byte(offset + 1) IN
        [size |-> 2, length |-> IF raw > 0 THEN raw - 1 ELSE 0, rd |-> {<<offset, 2>>}]
    ELSE IF Blob4Guard(offset) /\ b0 < 224 THEN        \* (*offset & 0xE0) == 0xC0
      IF ~fits_in_pe(offset, 4) THEN [size |-> 0, length |-> jnk, rd |-> {<<offset, 1>>}]
      ELSE LET raw == 16777216 * (b0 % 32) + 65536 * Byte(offset + 1)
                      + 256 * Byte(offset + 2) + Byte(offset + 3) IN
        [size |-> 4, length |-> IF raw > 0 THEN raw - 1 ELSE 0, rd |-> {<<offset, 4>>}]
    ELSE [size |-> 0, length |-> jnk, rd |-> {<<offset, 1>>}]

(***************************************************************************)
(* dotnet_parse_com, lines 1754-1764: which stage follows which.           *)
(***************************************************************************)
NoHeaders == [tilde |-> NULL, guid |-> NULL, string |-> NULL, blob |-> NULL, us |-> NULL]

\* the call ends after the tables
StopAfterTables(h) == "done"

AfterTilde(h) == IF h.us # NULL THEN "us" ELSE "done"
AfterGuid(h) ==
  IF h.tilde # NULL /\ h.string # NULL /\ h.blob # NULL THEN "tilde" ELSE AfterTilde(h)
AfterStreams(h) == IF h.guid # NULL THEN "guid" ELSE AfterGuid(h)

ComIdle == [metadata_root |-> 0, cli_header |-> 0, offset |-> 0, num_streams |-> 0,
            headers |-> NoHeaders]
ShIdle == [i |-> 0, stream_header |-> 0]
GdIdle == [i |-> 0, guid_offset |-> 0, guid_size |-> 0]
UsIdle == [i |-> 0, n |-> 0, offset |-> 0, end_of_header |-> 0,
           last |-> [made |-> FALSE, at |-> 0, size |-> 0, length |-> 0]]

(***************************************************************************)
(* Sizes and constants of yara/dotnet.h and yara/pe.h (packed structures). *)
(***************************************************************************)
SIZEOF_CLI_HEADER == 72
SIZEOF_NET_METADATA == 16
SIZEOF_STREAM_HEADER == 8
SIZEOF_TILDE_HEADER == 24
DOTNET_STREAM_NAME_SIZE == 32
IMAGE_DIRECTORY_ENTRY_COM_DESCRIPTOR == 14
MAX_STRING_SCAN == 1024
NET_METADATA_MAGIC == <<66, 83, 74, 66>>      \* 0x424a5342, as stored

\* PE collaborator: the file offset of an RVA, or -1 (rva_to_file_offset)
pe_rva_to_offset(rva) == IF rva < pe.rvaLimit THEN rva ELSE -1

(***************************************************************************)
(* C strings.                                                              *)
(***************************************************************************)
\* the first NUL in [p, limit), or NULL
FindNul(p, limit) ==
  IF \E q \in p..(limit - 1) : Byte(q) = 0
  THEN CHOOSE q \in p..(limit - 1) : Byte(q) = 0 /\ \A r \in p..(q - 1) : Byte(r) # 0
  ELSE NULL

\* memmem(start, n, "\0", 1)
memmem(start, n) == FindNul(start, start + n)

\* strncmp(s, lit, Len(lit)) == 0
StartsWith(s, lit) == Len(s) >= Len(lit) /\ SubSeq(s, 1, Len(lit)) = lit

\* the bytes of the C string at `start` (whose terminator is known to be in the buffer)
CStr(start) == Bytes(start, FindNul(start, data_size) - start)

\* the reader without the limit on the distance of the terminator
StringUnlimited(string_offset, string_index) ==
  LET start == string_offset + string_index
      eos == memmem(start, data_size - start)
  IN IF ~(start >= 0 /\ start < data_size) THEN NULL
     ELSE IF eos = NULL THEN NULL
     ELSE start

\* pe_get_dotnet_string: the start of the string, or NULL
pe_get_dotnet_string(string_offset, string_index) ==
  LET start == string_offset + string_index
      eos == memmem(start, data_size - start)
  IN IF ~(start >= 0 /\ start < data_size) THEN NULL
     ELSE IF eos = NULL \/ eos - start > MAX_STRING_SCAN THEN NULL
     ELSE start

\* the bytes pe_get_dotnet_string scans
StringScan(string_offset, string_index) ==
  LET start == string_offset + string_index
      eos == memmem(start, data_size - start)
  IN IF ~(start >= 0 /\ start < data_size) THEN {}
     ELSE IF eos = NULL THEN {<<start, data_size - start>>}
     ELSE {<<start, eos - start + 1>>}

(***************************************************************************)
(* dotnet_is_dotnet: the probe.  [ok, rd]                                  *)
(***************************************************************************)
\* the probe without lines 1659-1664
ProbeNo64(ok_so_far) == ok_so_far

\* lines 1659-1664: a 64-bit image must declare enough data directories
Probe64(ok_so_far) == IF pe.numRva < IMAGE_DIRECTORY_ENTRY_COM_DESCRIPTOR THEN FALSE ELSE ok_so_far

\* lines 1665-1677: a 32-bit executable must start with jmp [IAT]
ProbeEntry ==
  LET entry_offset == pe_rva_to_offset(pe.entry) IN
  IF entry_offset < 0 \/ ~fits_in_pe(entry_offset, 2) THEN [ok |-> FALSE, rd |-> {}]
  ELSE [ok |-> Byte(entry_offset) = 255 /\ Byte(entry_offset + 1) = 37,
        rd |-> {<<entry_offset, 2>>}]

dotnet_is_dotnet ==
  LET No(rd) == [ok |-> FALSE, rd |-> rd]
      offset == pe_rva_to_offset(pe.dirVA)
      metadata_root == pe_rva_to_offset(U32(offset + 8))
      md_len == U32(metadata_root + 12)
      rd1 == {<<offset, 4>>}
      rd2 == rd1 \cup {<<offset + 8, 4>>}
      rd3 == rd2 \cup {<<metadata_root, 4>>}
      rd4 == rd3 \cup {<<metadata_root + 12, 4>>}
  IN IF ~pe.dir THEN No({})
     ELSE IF offset < 0 \/ ~fits_in_pe(offset, SIZEOF_CLI_HEADER) THEN No({})
     ELSE IF U32(offset) # SIZEOF_CLI_HEADER THEN No(rd1)
     ELSE IF ~fits_in_pe(metadata_root, SIZEOF_NET_METADATA) THEN No(rd2)
     ELSE IF Bytes(metadata_root, 4) # NET_METADATA_MAGIC THEN No(rd3)
     ELSE IF md_len = 0 \/ md_len > 255 \/ md_len % 4 # 0
             \/ ~fits_in_pe(metadata_root + SIZEOF_NET_METADATA, md_len) THEN No(rd4)
     ELSE IF pe.is64 THEN [ok |-> Probe64(TRUE), rd |-> rd4]
     ELSE IF ~pe.isDll THEN [ok |-> ProbeEntry.ok, rd |-> rd4 \cup ProbeEntry.rd]
     ELSE [ok |-> TRUE, rd |-> rd4]

(***************************************************************************)
(* dotnet_parse_com.                                                       *)
(***************************************************************************)
\* the call goes on whatever the probe says
ProbeContinues ==
  /\ pc = "start"
  /\ LET r == dotnet_is_dotnet IN
     /\ oob' = (oob \/ Outside(r.rd) # {})
     /\ obj' = SetVal(obj, Fld("is_dotnet"), IF r.ok THEN 1 ELSE 0)
     /\ pc' = "root"
  /\ UNCHANGED <<data, pe, com, sh, gd, td, us, stages, run, obj1, data2>>

\* lines 1693-1699
Probe ==
  /\ pc = "start"
  /\ LET r == dotnet_is_dotnet IN
     /\ oob' = (oob \/ Outside(r.rd) # {})
     /\ obj' = SetVal(obj, Fld("is_dotnet"), IF r.ok THEN 1 ELSE 0)
     /\ pc' = IF r.ok THEN "root" ELSE "done"
  /\ UNCHANGED <<data, pe, com, sh, gd, td, us, stages, run, obj1, data2>>

\* lines 1701-1752 up to the first iteration of dotnet_parse_stream_headers
ParseRoot ==
  /\ pc = "root"
  /\ LET cli == pe_rva_to_offset(pe.dirVA)
         metadata_root == pe_rva_to_offset(U32(cli + 8))
         md_len == U32(metadata_root + 12)
         version == metadata_root + SIZEOF_NET_METADATA
         end == memmem(version, md_len)
         offset == metadata_root + SIZEOF_NET_METADATA + md_len + 2
         ok1 == pe.dir /\ ~(cli < 0 \/ ~fits_in_pe(cli, SIZEOF_CLI_HEADER))
         ok2 == ok1 /\ fits_in_pe(metadata_root, SIZEOF_NET_METADATA)
         ok3 == ok2 /\ ~(md_len = 0 \/ md_len > 255 \/ md_len % 4 # 0
                         \/ ~fits_in_pe(version, md_len))
         ok4 == ok3 /\ fits_in_pe(offset, 2)
         rd == (IF ok1 THEN {<<cli + 8, 4>>} ELSE {})
               \cup (IF ok2 THEN {<<metadata_root + 12, 4>>} ELSE {})
               \cup (IF ok3 THEN {<<version, IF end = NULL THEN md_len
                                              ELSE end - version + 1>>} ELSE {})
               \cup (IF ok4 THEN {<<offset, 1>>} ELSE {})
     IN /\ oob' = (oob \/ Outside(rd) # {})
        /\ obj' = IF ok3 /\ end # NULL
                  THEN SetVal(obj, Fld("version"), Bytes(version, end - version))
                  ELSE obj
        /\ IF ok4
           THEN /\ com' = [metadata_root |-> metadata_root, cli_header |-> cli,
                           offset |-> offset + 2, num_streams |-> Byte(offset),
                           headers |-> NoHeaders]
                /\ sh' = [i |-> 0, stream_header |-> offset + 2]
                /\ pc' = "streams"
                /\ stages' = Append(stages, "streams")
           ELSE /\ pc' = "done"
                /\ UNCHANGED <<com, sh, stages>>
  /\ UNCHANGED <<data, pe, gd, td, us, run, obj1, data2>>

(***************************************************************************)
(* dotnet_parse_stream_headers.                                            *)
(***************************************************************************)
S_TILDE == <<35, 126>>                             \* "#~"
S_MINUS == <<35, 45>>                              \* "#-"
S_GUID == <<35, 71, 85, 73, 68>>                   \* "#GUID"
S_STRINGS == <<35, 83, 116, 114, 105, 110, 103, 115>>   \* "#Strings"
S_BLOB == <<35, 66, 108, 111, 98>>                 \* "#Blob"
S_US == <<35, 85, 83>>                             \* "#US"

\* lines 273-284: the record at h can be read and named
StreamFits(h) ==
  /\ fits_in_pe(h, SIZEOF_STREAM_HEADER)
  /\ fits_in_pe(h + SIZEOF_STREAM_HEADER, DOTNET_STREAM_NAME_SIZE)
  /\ memmem(h + SIZEOF_STREAM_HEADER, DOTNET_STREAM_NAME_SIZE) # NULL

\* lines 286-287
StreamName(h) ==
  Bytes(h + SIZEOF_STREAM_HEADER,
        memmem(h + SIZEOF_STREAM_HEADER, DOTNET_STREAM_NAME_SIZE)
          - (h + SIZEOF_STREAM_HEADER))

\* lines 310-321: the typed references after the record at h, named `name`
Capture(headers, name, h) ==
  IF (StartsWith(name, S_TILDE) \/ StartsWith(name, S_MINUS)) /\ headers.tilde = NULL
    THEN [headers EXCEPT !.tilde = h]
  ELSE IF StartsWith(name, S_GUID) THEN [headers EXCEPT !.guid = h]
  ELSE IF StartsWith(name, S_STRINGS) /\ headers.string = NULL
    THEN [headers EXCEPT !.string = h]
  ELSE IF StartsWith(name, S_BLOB) THEN [headers EXCEPT !.blob = h]
  ELSE IF StartsWith(name, S_US) /\ headers.us = NULL THEN [headers EXCEPT !.us = h]
  ELSE headers

\* lines 323-325: the next record
StreamAdvance(h, name) == h + SIZEOF_STREAM_HEADER + Len(name) + 4 - (Len(name) % 4)

\* what the checks of one iteration dereference
StreamReads(h) ==
  IF ~fits_in_pe(h, SIZEOF_STREAM_HEADER)
       \/ ~fits_in_pe(h + SIZEOF_STREAM_HEADER, DOTNET_STREAM_NAME_SIZE) THEN {}
  ELSE IF ~StreamFits(h) THEN {<<h + SIZEOF_STREAM_HEADER, DOTNET_STREAM_NAME_SIZE>>}
  ELSE {<<h, SIZEOF_STREAM_HEADER + Len(StreamName(h)) + 1>>}

\* lines 271-326: one iteration
StreamStep ==
  /\ pc = "streams"
  /\ sh.i < com.num_streams
  /\ StreamFits(sh.stream_header)
  /\ LET h == sh.stream_header
         name == StreamName(h)
     IN /\ obj' = SetVal(SetVal(SetVal(obj,
                     Key("streams", sh.i, "name"), name),
                     Key("streams", sh.i, "offset"), com.metadata_root + U32(h)),
                     Key("streams", sh.i, "size"), U32(h + 4))
        /\ com' = [com EXCEPT !.headers = Capture(@, name, h)]
        /\ sh' = [i |-> sh.i + 1, stream_header |-> StreamAdvance(h, name)]
        /\ oob' = (oob \/ Outside(StreamReads(h)) # {})
  /\ pc' = "streams"
  /\ UNCHANGED <<data, pe, gd, td, us, stages, run, obj1, data2>>

\* the loop ends (count reached, or a record fails): line 328, then lines 1754-1764
StreamsEnd ==
  /\ pc = "streams"
  /\ ~(sh.i < com.num_streams /\ StreamFits(sh.stream_header))
  /\ obj' = SetVal(obj, Fld("number_of_streams"), sh.i)
  /\ oob' = (oob \/ (sh.i < com.num_streams /\ Outside(StreamReads(sh.stream_header)) # {}))
  /\ pc' = AfterStreams(com.headers)
  /\ UNCHANGED <<data, pe, com, sh, gd, td, us, stages, run, obj1, data2>>

(***************************************************************************)
(* dotnet_parse_guid.                                                      *)
(***************************************************************************)
MAX_GUID_BYTES == 256

HexDigit(d) == IF d < 10 THEN 48 + d ELSE 87 + d
Hex2(b) == <<HexDigit(b \div 16), HexDigit(b % 16)>>
DASH == <<45>>

\* lines 103-118: "%08x-%04x-%04x-%02x%02x-%02x%02x%02x%02x%02x%02x"
GuidText(p) ==
  Hex2(Byte(p + 3)) \o Hex2(Byte(p + 2)) \o Hex2(Byte(p + 1)) \o Hex2(Byte(p)) \o DASH
  \o Hex2(Byte(p + 5)) \o Hex2(Byte(p + 4)) \o DASH
  \o Hex2(Byte(p + 7)) \o Hex2(Byte(p + 6)) \o DASH
  \o Hex2(Byte(p + 8)) \o Hex2(Byte(p + 9)) \o DASH
  \o Hex2(Byte(p + 10)) \o Hex2(Byte(p + 11)) \o Hex2(Byte(p + 12))
  \o Hex2(Byte(p + 13)) \o Hex2(Byte(p + 14)) \o Hex2(Byte(p + 15))

\* the declared size taken as it is
GuidUncapped(size) == size

\* line 98: yr_min(guid_size, 256)
GuidCap(size) == IF size < MAX_GUID_BYTES THEN size ELSE MAX_GUID_BYTES

\* lines 89-98
GuidBegin ==
  /\ pc = "guid"
  /\ LET hdr == com.headers.guid
         size == U32(hdr + 4)
     IN gd' = [i |-> 0, guid_offset |-> com.metadata_root + U32(hdr),
               guid_size |-> GuidCap(size)]
  /\ oob' = (oob \/ Outside({<<com.headers.guid, 8>>}) # {})
  /\ stages' = Append(stages, "guid")
  /\ pc' = "guid_loop"
  /\ UNCHANGED <<data, pe, obj, com, sh, td, us, run, obj1, data2>>

\* lines 101-125: one iteration
GuidStep ==
  /\ pc = "guid_loop"
  /\ gd.guid_size >= 16 /\ fits_in_pe(gd.guid_offset, 16)
  /\ obj' = SetVal(obj, Key("guids", gd.i, ""), GuidText(gd.guid_offset))
  /\ oob' = (oob \/ Outside({<<gd.guid_offset, 16>>}) # {})
  /\ gd' = [i |-> gd.i + 1, guid_offset |-> gd.guid_offset + 16,
            guid_size |-> gd.guid_size - 16]
  /\ pc' = "guid_loop"
  /\ UNCHANGED <<data, pe, com, sh, td, us, stages, run, obj1, data2>>

\* line 127, then lines 1760-1764
GuidEnd ==
  /\ pc = "guid_loop"
  /\ ~(gd.guid_size >= 16 /\ fits_in_pe(gd.guid_offset, 16))
  /\ obj' = SetVal(obj, Fld("number_of_guids"), gd.i)
  /\ pc' = AfterGuid(com.headers)
  /\ UNCHANGED <<data, pe, oob, com, sh, gd, td, us, stages, run, obj1, data2>>

(***************************************************************************)
(* The #~ stream: table numbers (yara/dotnet.h, ECMA-335 II.22).           *)
(***************************************************************************)
BIT_MODULE == 0
BIT_TYPEREF == 1
BIT_TYPEDEF == 2
BIT_FIELDPTR == 3
BIT_FIELD == 4
BIT_METHODDEFPTR == 5
BIT_METHODDEF == 6
BIT_PARAM == 8
BIT_INTERFACEIMPL == 9
BIT_MEMBERREF == 10
BIT_CONSTANT == 11
BIT_CUSTOMATTRIBUTE == 12
BIT_FIELDMARSHAL == 13
BIT_DECLSECURITY == 14
BIT_CLASSLAYOUT == 15
BIT_FIELDLAYOUT == 16
BIT_STANDALONESIG == 17
BIT_EVENTMAP == 18
BIT_EVENTPTR == 19
BIT_EVENT == 20
BIT_PROPERTYMAP == 21
BIT_PROPERTYPTR == 22
BIT_PROPERTY == 23
BIT_METHODSEMANTICS == 24
BIT_METHODIMPL == 25
BIT_MODULEREF == 26
BIT_TYPESPEC == 27
BIT_IMPLMAP == 28
BIT_FIELDRVA == 29
BIT_ENCLOG == 30
BIT_ENCMAP == 31
BIT_ASSEMBLY == 32
BIT_ASSEMBLYPROCESSOR == 33
BIT_ASSEMBLYOS == 34
BIT_ASSEMBLYREF == 35
BIT_ASSEMBLYREFPROCESSOR == 36
BIT_ASSEMBLYREFOS == 37
BIT_FILE == 38
BIT_EXPORTEDTYPE == 39
BIT_MANIFESTRESOURCE == 40
BIT_NESTEDCLASS == 41
BIT_GENERICPARAM == 42
BIT_METHODSPEC == 43
BIT_GENERICPARAMCONSTRAINT == 44

NUM_BITS == 64                 \* width of the Valid mask
MAX_ROWS == 10000              \* the row-count cap of the second pass
ELEMENT_TYPE_STRING == 14
SIZEOF_MODULE_TABLE == 18
SIZEOF_MODULEREF_TABLE == 4
SIZEOF_FIELDRVA_TABLE == 8

\* the tables whose row count the first pass records (ROW_CHECK)
RowBits ==
  {BIT_MODULE, BIT_MODULEREF, BIT_ASSEMBLYREF, BIT_ASSEMBLYREFPROCESSOR,
   BIT_TYPEREF, BIT_METHODDEF, BIT_MEMBERREF, BIT_TYPEDEF, BIT_TYPESPEC,
   BIT_FIELD, BIT_PARAM, BIT_PROPERTY, BIT_INTERFACEIMPL, BIT_EVENT,
   BIT_STANDALONESIG, BIT_ASSEMBLY, BIT_FILE, BIT_EXPORTEDTYPE,
   BIT_MANIFESTRESOURCE, BIT_GENERICPARAM, BIT_GENERICPARAMCONSTRAINT,
   BIT_METHODSPEC}

\* the tables whose index width the first pass records (ROW_CHECK_WITH_INDEX)
IndexBits ==
  {BIT_MODULEREF, BIT_ASSEMBLYREF, BIT_ASSEMBLYREFPROCESSOR, BIT_METHODDEF,
   BIT_MEMBERREF, BIT_TYPEDEF, BIT_FIELD, BIT_PARAM, BIT_PROPERTY, BIT_EVENT,
   BIT_GENERICPARAM}

\* the tables the second pass has a case for; any other set bit ends the pass
KnownBits ==
  {BIT_MODULE, BIT_TYPEREF, BIT_TYPEDEF, BIT_FIELDPTR, BIT_FIELD, BIT_METHODDEFPTR,
   BIT_METHODDEF, BIT_PARAM, BIT_INTERFACEIMPL, BIT_MEMBERREF, BIT_CONSTANT,
   BIT_CUSTOMATTRIBUTE, BIT_FIELDMARSHAL, BIT_DECLSECURITY, BIT_CLASSLAYOUT,
   BIT_FIELDLAYOUT, BIT_STANDALONESIG, BIT_EVENTMAP, BIT_EVENTPTR, BIT_EVENT,
   BIT_PROPERTYMAP, BIT_PROPERTYPTR, BIT_PROPERTY, BIT_METHODSEMANTICS, BIT_METHODIMPL,
   BIT_MODULEREF, BIT_TYPESPEC, BIT_IMPLMAP, BIT_FIELDRVA, BIT_ENCLOG, BIT_ENCMAP,
   BIT_ASSEMBLY, BIT_ASSEMBLYPROCESSOR, BIT_ASSEMBLYOS, BIT_ASSEMBLYREF,
   BIT_ASSEMBLYREFPROCESSOR, BIT_ASSEMBLYREFOS, BIT_FILE, BIT_EXPORTEDTYPE,
   BIT_MANIFESTRESOURCE, BIT_NESTEDCLASS, BIT_GENERICPARAM, BIT_METHODSPEC,
   BIT_GENERICPARAMCONSTRAINT}

\* bit k of the 64-bit Valid mask of the header at h
ValidBit(h, k) == Bit(Byte(h + 8 + (k \div 8)), k % 8) = 1

\* the number of set Valid bits below k
MatchedBits(h, k) == Cardinality({j \in 0..(k - 1) : ValidBit(h, j)})

\* the next set Valid bit at or after k, or NUM_BITS
NextBit(h, k) ==
  IF \E j \in k..(NUM_BITS - 1) : ValidBit(h, j)
  THEN Min({j \in k..(NUM_BITS - 1) : ValidBit(h, j)})
  ELSE NUM_BITS

\* max_rows over a set of recorded row counts
max_rows(rows, bits) == LET m == CHOOSE b \in bits : \A c \in bits : rows[b] >= rows[c]
                        IN rows[m]

\* a coded index over `bits` whose tag takes `shift` bits
CodedSize(rows, bits, shift) ==
  IF max_rows(rows, bits) > 65535 \div (2 ^ shift) THEN 4 ELSE 2

\* an index column of `size` bytes
ReadIdx(p, size) == IF size = 4 THEN U32(p) ELSE U16(p)

\* an index column of `size` bytes, shifted right by 3
ReadIdxShr3(p, size) ==
  IF size = 4
  THEN (Byte(p) \div 8) + 32 * Byte(p + 1) + 8192 * Byte(p + 2) + 2097152 * Byte(p + 3)
  ELSE U16(p) \div 8

\* row_size * index in 32 bits (wrapping); products from Huge up are reported as Huge
Mul32(row_size, index) ==
  LET lo == (index % 65536) * row_size
      hi == ((index \div 65536) * row_size + (lo \div 65536)) % 65536
  IN IF hi >= 8192 THEN Huge ELSE hi * 65536 + (lo % 65536)

(***************************************************************************)
(* dotnet_parse_tilde: the first pass.                                     *)
(***************************************************************************)
TdIdle ==
  [tilde_header |-> 0, resource_base |-> 0, rows |-> [b \in RowBits |-> 0],
   index_sizes |-> [b \in IndexBits |-> 2], string |-> 2, guid |-> 2, blob |-> 2,
   bit_check |-> 0, matched_bits |-> 0, table_offset |-> 0, string_offset |-> 0,
   blob_heap |-> 0, typeref_ptr |-> NULL, memberref_ptr |-> NULL,
   typeref_row_size |-> 0, memberref_row_size |-> 0, iters |-> 0, tables |-> 0,
   undecoded |-> 0, setters |-> <<>>, seen |-> <<>>, refs |-> <<>>,
   consts |-> <<>>, modrefs |-> <<>>, rvas |-> <<>>,
   at |-> [b \in KnownBits |-> NULL], count |-> [b \in KnownBits |-> 0]]

\* ROW_CHECK at table b: the row count recorded, or 0 when it cannot be read
RowCheck(h, b) ==
  LET row_offset == h + SIZEOF_TILDE_HEADER
      m == MatchedBits(h, b)
  IN IF ValidBit(h, b) /\ fits_in_pe(row_offset, (m + 1) * 4)
     THEN U32(row_offset + 4 * m) ELSE 0

\* the row-count reads of the first pass
RowCheckReads(h) ==
  {<<h + SIZEOF_TILDE_HEADER + 4 * MatchedBits(h, b), 4>> :
     b \in {c \in RowBits : ValidBit(h, c)
                            /\ fits_in_pe(h + SIZEOF_TILDE_HEADER,
                                          (MatchedBits(h, c) + 1) * 4)}}

\* lines 1489-1617 and 420-432
ParseTilde ==
  /\ pc = "tilde"
  /\ LET h == com.metadata_root + U32(com.headers.tilde)
         heap_sizes == Byte(h + 6)
         rows == [b \in RowBits |-> RowCheck(h, b)]
         valid_rows == MatchedBits(h, NUM_BITS)
         rd0 == {<<com.headers.tilde, 4>>}
     IN /\ stages' = Append(stages, "tilde")
        /\ IF ~fits_in_pe(h, SIZEOF_TILDE_HEADER)
           THEN /\ pc' = AfterTilde(com.headers)
                /\ td' = TdIdle
                /\ oob' = (oob \/ Outside(rd0) # {})
           ELSE /\ pc' = "tilde2"
                /\ td' = [TdIdle EXCEPT
                     !.tilde_header = h,
                     !.resource_base = pe_rva_to_offset(U32(com.cli_header + 24)),
                     !.rows = rows,
                     !.index_sizes = [b \in IndexBits |-> IF rows[b] > 65535 THEN 4 ELSE 2],
                     !.string = IF Bit(heap_sizes, 0) = 1 THEN 4 ELSE 2,
                     !.guid = IF Bit(heap_sizes, 1) = 1 THEN 4 ELSE 2,
                     !.blob = IF Bit(heap_sizes, 2) = 1 THEN 4 ELSE 2,
                     !.bit_check = NextBit(h, 0),
                     !.table_offset = h + SIZEOF_TILDE_HEADER + 4 * valid_rows,
                     !.string_offset = com.metadata_root + U32(com.headers.string),
                     !.blob_heap = com.metadata_root + U32(com.headers.blob)]
                /\ oob' = (oob \/ Outside(rd0 \cup {<<h, SIZEOF_TILDE_HEADER>>,
                                                     <<com.cli_header + 24, 4>>,
                                                     <<com.headers.string, 4>>,
                                                     <<com.headers.blob, 4>>}
                                              \cup RowCheckReads(h)) # {})
  /\ UNCHANGED <<data, pe, obj, com, sh, gd, us, run, obj1, data2>>

(***************************************************************************)
(* dotnet_parse_tilde_2: the second pass, one present table per step.      *)
(***************************************************************************)
\* where the row count of the current table is stored
RowSlot == td.tilde_header + SIZEOF_TILDE_HEADER + 4 * td.matched_bits

\* lines 441-450: the current table's row count is readable and within the cap
num_rows == U32(RowSlot)

\* the same without the check of line 441
RowsAlwaysReadable == TRUE

RowsReadable == fits_in_pe(RowSlot, 4)

RowsCapped(n) == n <= MAX_ROWS

AtTable(b) ==
  /\ pc = "tilde2"
  /\ td.bit_check = b
  /\ RowsReadable
  /\ RowsCapped(num_rows)

\* lines 1448 and 435-439: on to the next present table; `at` and `count` remember
\* where the table just handled was taken to start and the row count read for it
TdAdvance(t, new_offset, n) ==
  [t EXCEPT !.table_offset = new_offset,
            !.at[t.bit_check] = t.table_offset,
            !.count[t.bit_check] = num_rows,
            !.matched_bits = @ + 1,
            !.bit_check = NextBit(t.tilde_header, @ + 1),
            !.iters = n,
            !.tables = @ + 1]

\* the row size of a table the second pass only skips
SkipRowSize(b) ==
  LET S == td.string  G == td.guid  B == td.blob  X == td.index_sizes  R == td.rows IN
  CASE b = BIT_TYPEDEF ->
         4 + (S * 2) + CodedSize(R, {BIT_TYPEDEF, BIT_TYPEREF, BIT_TYPESPEC}, 2)
           + X[BIT_FIELD] + X[BIT_METHODDEF]
    [] b = BIT_FIELDPTR -> X[BIT_FIELD]
    [] b = BIT_FIELD -> 2 + S + B
    [] b = BIT_METHODDEFPTR -> X[BIT_METHODDEF]
    [] b = BIT_METHODDEF -> 4 + 2 + 2 + S + B + X[BIT_PARAM]
    [] b = BIT_PARAM -> 2 + 2 + S
    [] b = BIT_INTERFACEIMPL ->
         X[BIT_TYPEDEF] + CodedSize(R, {BIT_TYPEDEF, BIT_TYPEREF, BIT_TYPESPEC}, 2)
    [] b = BIT_FIELDMARSHAL -> CodedSize(R, {BIT_FIELD, BIT_PARAM}, 1) + B
    [] b = BIT_DECLSECURITY ->
         2 + CodedSize(R, {BIT_TYPEDEF, BIT_METHODDEF, BIT_ASSEMBLY}, 2) + B
    [] b = BIT_CLASSLAYOUT -> 2 + 4 + X[BIT_TYPEDEF]
    [] b = BIT_FIELDLAYOUT -> 4 + X[BIT_FIELD]
    [] b = BIT_STANDALONESIG -> B
    [] b = BIT_EVENTMAP -> X[BIT_TYPEDEF] + X[BIT_EVENT]
    [] b = BIT_EVENTPTR -> X[BIT_EVENT]
    [] b = BIT_EVENT ->
         2 + S + CodedSize(R, {BIT_TYPEDEF, BIT_TYPEREF, BIT_TYPESPEC}, 2)
    [] b = BIT_PROPERTYMAP -> X[BIT_TYPEDEF] + X[BIT_PROPERTY]
    [] b = BIT_PROPERTYPTR -> X[BIT_PROPERTY]
    [] b = BIT_PROPERTY -> 2 + S + B
    [] b = BIT_METHODSEMANTICS ->
         2 + X[BIT_METHODDEF] + CodedSize(R, {BIT_EVENT, BIT_PROPERTY}, 1)
    [] b = BIT_METHODIMPL ->
         X[BIT_TYPEDEF] + (CodedSize(R, {BIT_METHODDEF, BIT_MEMBERREF}, 1) * 2)
    [] b = BIT_TYPESPEC -> B
    [] b = BIT_IMPLMAP ->
         2 + CodedSize(R, {BIT_FIELD, BIT_METHODDEF}, 1) + S + X[BIT_MODULEREF]
    [] b = BIT_ENCLOG -> 4 + 4
    [] b = BIT_ENCMAP -> 4
    [] b = BIT_ASSEMBLYPROCESSOR -> 4
    [] b = BIT_ASSEMBLYOS -> 4 + 4 + 4
    [] b = BIT_ASSEMBLYREFPROCESSOR -> 4 + X[BIT_ASSEMBLYREFPROCESSOR]
    [] b = BIT_ASSEMBLYREFOS -> 4 + 4 + 4 + X[BIT_ASSEMBLYREF]
    [] b = BIT_FILE -> 4 + S + B
    [] b = BIT_EXPORTEDTYPE ->
         4 + 4 + (S * 2) + CodedSize(R, {BIT_FILE, BIT_ASSEMBLYREF, BIT_EXPORTEDTYPE}, 2)
    [] b = BIT_NESTEDCLASS -> X[BIT_TYPEDEF] * 2
    [] b = BIT_GENERICPARAM ->
         2 + 2 + CodedSize(R, {BIT_TYPEDEF, BIT_METHODDEF}, 1) + S
    [] b = BIT_METHODSPEC -> CodedSize(R, {BIT_METHODDEF, BIT_MEMBERREF}, 1) + B
    [] b = BIT_GENERICPARAMCONSTRAINT ->
         X[BIT_GENERICPARAM] + CodedSize(R, {BIT_TYPEDEF, BIT_TYPEREF, BIT_TYPESPEC}, 2)

\* the tables handled by SkipRowSize
SkipBits ==
  KnownBits \ {BIT_MODULE, BIT_TYPEREF, BIT_MEMBERREF, BIT_CONSTANT, BIT_CUSTOMATTRIBUTE,
               BIT_MODULEREF, BIT_FIELDRVA, BIT_ASSEMBLY, BIT_ASSEMBLYREF,
               BIT_MANIFESTRESOURCE}

\* a table of no interest: step over its rows
TableSkip ==
  /\ \E b \in SkipBits : AtTable(b)
  /\ td' = TdAdvance(td, td.table_offset + SkipRowSize(td.bit_check) * num_rows, 0)
  /\ oob' = (oob \/ Outside({<<RowSlot, 4>>}) # {})
  /\ UNCHANGED <<data, pe, pc, obj, com, sh, gd, us, stages, run, obj1, data2>>

\* lines 441-450 and 1443-1445: the pass returns
Tilde2Abort ==
  /\ pc = "tilde2"
  /\ td.bit_check < NUM_BITS
  /\ \/ ~RowsReadable
     \/ ~RowsCapped(num_rows)
     \/ td.bit_check \notin KnownBits
  /\ oob' = (oob \/ (RowsReadable /\ Outside({<<RowSlot, 4>>}) # {}))
  /\ pc' = AfterTilde(com.headers)
  /\ UNCHANGED <<data, pe, obj, com, sh, gd, td, us, stages, run, obj1, data2>>

\* all 64 bits have been looked at
Tilde2End ==
  /\ pc = "tilde2"
  /\ td.bit_check = NUM_BITS
  /\ pc' = AfterTilde(com.headers)
  /\ UNCHANGED <<data, pe, obj, oob, com, sh, gd, td, us, stages, run, obj1, data2>>

\* the string at index idx of the #Strings heap, with what was read to get it
GetString(idx) == pe_get_dotnet_string(td.string_offset, idx)

GetStringReads(idx) == StringScan(td.string_offset, idx)

\* all n bytes at p
StrAll(p, n) == Bytes(p, n)

\* the first n bytes at p up to a NUL (strncpy into a zeroed tail, then strlen)
StrN(p, n) ==
  LET z == FindNul(p, p + n) IN Bytes(p, IF z = NULL THEN n ELSE z - p)

\* lines 464-478 -------------------------------------------------------------
ModuleRowSize == 2 + td.string + (td.guid * 3)

\* the table offset after the Module case
ModuleNext(t, fits, n) == IF fits THEN t + ModuleRowSize * n ELSE t

TableModule ==
  /\ AtTable(BIT_MODULE)
  /\ LET t == td.table_offset
         fits == fits_in_pe(t, SIZEOF_MODULE_TABLE)
         idx == ReadIdx(t + 2, td.string)
         name == GetString(idx)
         rd == {<<RowSlot, 4>>}
               \cup (IF fits THEN {<<t + 2, td.string>>} \cup GetStringReads(idx) ELSE {})
     IN /\ obj' = IF fits /\ name # NULL
                  THEN SetVal(obj, Fld("module_name"), CStr(name)) ELSE obj
        /\ td' = TdAdvance(td, ModuleNext(t, fits, num_rows), 0)
        /\ oob' = (oob \/ Outside(rd) # {})
  /\ UNCHANGED <<data, pe, pc, com, sh, gd, us, stages, run, obj1, data2>>

\* lines 480-497 -------------------------------------------------------------
ScopeBits == {BIT_MODULE, BIT_MODULEREF, BIT_ASSEMBLYREF, BIT_TYPEREF}

TableTypeRef ==
  /\ AtTable(BIT_TYPEREF)
  /\ LET row_size == CodedSize(td.rows, ScopeBits, 2) + (td.string * 2) IN
     td' = [TdAdvance(td, td.table_offset + row_size * num_rows, 0) EXCEPT
              !.typeref_row_size = row_size,
              !.typeref_ptr = td.table_offset]
  /\ oob' = (oob \/ Outside({<<RowSlot, 4>>}) # {})
  /\ UNCHANGED <<data, pe, pc, obj, com, sh, gd, us, stages, run, obj1, data2>>

\* lines 555-572 -------------------------------------------------------------
MemberRefParentBits == {BIT_METHODDEF, BIT_MODULEREF, BIT_TYPEREF, BIT_TYPESPEC}

TableMemberRef ==
  /\ AtTable(BIT_MEMBERREF)
  /\ LET row_size == CodedSize(td.rows, MemberRefParentBits, 3) + td.string + td.blob IN
     td' = [TdAdvance(td, td.table_offset + row_size * num_rows, 0) EXCEPT
              !.memberref_row_size = row_size,
              !.memberref_ptr = td.table_offset]
  /\ oob' = (oob \/ Outside({<<RowSlot, 4>>}) # {})
  /\ UNCHANGED <<data, pe, pc, obj, com, sh, gd, us, stages, run, obj1, data2>>

\* the counter steps at every row, kept or not
CounterPerRow(counter, kept) == counter + 1

\* lines 645, 1043, 1092 and 1392: the running counter steps only when a row is kept
NextCounter(counter, kept) == IF kept THEN counter + 1 ELSE counter

\* lines 574-651 -------------------------------------------------------------
RECURSIVE ConstantRows(_, _)
ConstantRows(c, a) ==
  IF ~(a.i < c.num_rows) \/ ~fits_in_pe(a.row_ptr, c.row_size) THEN a
  ELSE
    LET isString == Byte(a.row_ptr) = ELEMENT_TYPE_STRING
        idxp == a.row_ptr + 2 + c.index_size
        blob_offset == td.blob_heap + ReadIdx(idxp, td.blob)
        r == dotnet_parse_blob_entry(blob_offset, c.jnk)
        off2 == blob_offset + r.size
        emit == isString /\ r.size # 0 /\ ~(off2 + r.length >= data_size)
        rd == {<<a.row_ptr, 1>>}
              \cup (IF isString THEN {<<idxp, td.blob>>} \cup r.rd ELSE {})
              \cup (IF emit THEN {<<off2, r.length>>} ELSE {})
    IN ConstantRows(c,
         [i |-> a.i + 1, row_ptr |-> a.row_ptr + c.row_size,
          counter |-> NextCounter(a.counter, emit),
          obj |-> IF emit
                  THEN SetVal(a.obj, Key("constants", a.counter, ""), Bytes(off2, r.length))
                  ELSE a.obj,
          consts |-> Append(a.consts, [at |-> a.row_ptr, kept |-> emit, counter |-> a.counter,
                                       decoded |-> r.size # 0, value_at |-> off2,
                                       length |-> r.length]),
          rd |-> a.rd \cup rd])

TableConstant ==
  /\ AtTable(BIT_CONSTANT)
  /\ \E jnk \in JunkVals :
       LET index_size == CodedSize(td.rows, {BIT_PARAM, BIT_FIELD, BIT_PROPERTY}, 2)
           row_size == 1 + 1 + index_size + td.blob
           a == ConstantRows([num_rows |-> num_rows, row_size |-> row_size,
                              index_size |-> index_size, jnk |-> jnk],
                             [i |-> 0, row_ptr |-> td.table_offset, counter |-> 0,
                              obj |-> obj, consts |-> <<>>, rd |-> {<<RowSlot, 4>>}])
       IN /\ obj' = SetVal(a.obj, Fld("number_of_constants"), a.counter)
          /\ td' = [TdAdvance(td, td.table_offset + row_size * num_rows, a.i) EXCEPT
                      !.consts = a.consts]
          /\ oob' = (oob \/ Outside(a.rd) # {})
  /\ UNCHANGED <<data, pe, pc, com, sh, gd, us, stages, run, obj1, data2>>

\* lines 653-922 -------------------------------------------------------------
GUID_ATTRIBUTE == <<71, 117, 105, 100, 65, 116, 116, 114, 105, 98, 117, 116, 101>>

CustomAttributeBits ==
  {BIT_METHODDEF, BIT_FIELD, BIT_TYPEREF, BIT_TYPEDEF, BIT_PARAM, BIT_INTERFACEIMPL,
   BIT_MEMBERREF, BIT_MODULE, BIT_PROPERTY, BIT_EVENT, BIT_STANDALONESIG,
   BIT_MODULEREF, BIT_TYPESPEC, BIT_ASSEMBLY, BIT_ASSEMBLYREF, BIT_FILE,
   BIT_EXPORTEDTYPE, BIT_MANIFESTRESOURCE, BIT_GENERICPARAM,
   BIT_GENERICPARAMCONSTRAINT, BIT_METHODSPEC}

\* line 771: the width the Class column of a MemberRef row is read with
ClassIndexSize == td.index_sizes[BIT_MEMBERREF]

\* line 833: the row is dropped because of the name of its type
NameRejects(name) == name # NULL /\ ~StartsWith(CStr(name), GUID_ATTRIBUTE)

RECURSIVE CustomAttributeRows(_, _)
CustomAttributeRows(c, a) ==
  IF ~(a.i < c.num_rows) \/ ~fits_in_pe(a.row_ptr, c.row_size) THEN a
  ELSE
    LET row_ptr == a.row_ptr
        typep == row_ptr + c.index_size
        type_index == Dec(ReadIdxShr3(typep, c.index_size2))
        memberref_row == td.memberref_ptr + Mul32(td.memberref_row_size, type_index)
        class_index == Dec(ReadIdxShr3(memberref_row, ClassIndexSize))
        typeref_row == td.typeref_ptr + Mul32(td.typeref_row_size, class_index)
        namep == typeref_row + CodedSize(td.rows, ScopeBits, 2)
        nameidx == ReadIdx(namep, td.string)
        name == GetString(nameidx)
        valp == row_ptr + c.index_size + c.index_size2
        blob_index == ReadIdx(valp, td.blob)
        blob_offset == td.blob_heap + blob_index
        r == dotnet_parse_blob_entry(blob_offset, c.jnk)
        off2 == blob_offset + r.size
        str_len == Byte(off2 + 2)
        sp == off2 + 3
        typelib == IF Byte(sp) = 255 \/ Byte(sp) = 0 THEN <<>> ELSE StrN(sp, str_len)
        rdParent == {<<row_ptr, c.index_size>>}
        rdType == rdParent \cup {<<typep, c.index_size2>>}
        rdClass == rdType \cup {<<memberref_row, ClassIndexSize>>}
        rdName == rdClass \cup {<<namep, td.string>>} \cup GetStringReads(nameidx)
        rdValue == rdName \cup {<<valp, td.blob>>}
        rdBlob == rdValue \cup r.rd
        rdProlog == rdBlob \cup {<<off2, 2>>}
        rdLen == rdProlog \cup {<<off2 + 2, 1>>}
        rdStr == rdLen \cup {<<sp, 1>>}
                 \cup (IF Byte(sp) = 255 \/ Byte(sp) = 0 THEN {}
                       ELSE {<<sp, IF Len(typelib) < str_len THEN Len(typelib) + 1
                                   ELSE str_len>>})
        Continue(rd, o) == CustomAttributeRows(c,
             [i |-> a.i + 1, row_ptr |-> row_ptr + c.row_size, obj |-> o,
              setters |-> a.setters, rd |-> a.rd \cup rd])
        \* the row sets typelib: remember the row, its type's name, where the content
        \* of its value starts and how long it says it is, the row-index part of its
        \* Type, the MemberRef row that was read for it and the width its Class was
        \* read with
        Set(rd, o) == CustomAttributeRows(c,
             [i |-> a.i + 1, row_ptr |-> row_ptr + c.row_size, obj |-> o,
              setters |-> Append(a.setters,
                            [row |-> a.i, named |-> name # NULL,
                             name |-> IF name # NULL THEN CStr(name) ELSE <<>>,
                             at |-> sp, n |-> str_len,
                             type |-> ReadIdxShr3(typep, c.index_size2),
                             memberref |-> memberref_row,
                             class_size |-> ClassIndexSize]),
              rd |-> a.rd \cup rd])
        Break(rd) == [a EXCEPT !.rd = @ \cup rd]
    IN IF Byte(row_ptr) % 32 # 14 THEN Continue(rdParent, a.obj)
       ELSE IF Byte(typep) % 8 # 3 THEN Continue(rdType, a.obj)
       ELSE IF ~fits_in_pe(memberref_row, td.memberref_row_size) THEN Break(rdType)
       ELSE IF Byte(memberref_row) % 8 # 1 THEN Continue(rdClass, a.obj)
       ELSE IF ~fits_in_pe(typeref_row, td.typeref_row_size) THEN Break(rdClass)
       ELSE IF NameRejects(name) THEN Continue(rdName, a.obj)
       ELSE IF blob_index = 0 \/ blob_offset >= data_size THEN Continue(rdValue, a.obj)
       ELSE IF r.size = 0 THEN Continue(rdBlob, a.obj)
       ELSE IF r.length < 3 \/ off2 + r.length >= data_size THEN Continue(rdBlob, a.obj)
       ELSE IF U16(off2) # 1 THEN Continue(rdProlog, a.obj)
       ELSE IF sp + str_len > data_size THEN Continue(rdLen, a.obj)
       ELSE Set(rdStr, SetVal(a.obj, Fld("typelib"), typelib))

TableCustomAttribute ==
  /\ AtTable(BIT_CUSTOMATTRIBUTE)
  /\ \E jnk \in JunkVals :
       LET index_size == CodedSize(td.rows, CustomAttributeBits, 5)
           index_size2 == CodedSize(td.rows, {BIT_METHODDEF, BIT_MEMBERREF}, 3)
           row_size == index_size + index_size2 + td.blob
           a0 == [i |-> 0, row_ptr |-> td.table_offset, obj |-> obj,
                  setters |-> <<>>, rd |-> {<<RowSlot, 4>>}]
           a == IF td.typeref_ptr # NULL /\ td.memberref_ptr # NULL
                THEN CustomAttributeRows([num_rows |-> num_rows, row_size |-> row_size,
                                          index_size |-> index_size,
                                          index_size2 |-> index_size2, jnk |-> jnk], a0)
                ELSE a0
       IN /\ obj' = a.obj
          /\ td' = [TdAdvance(td, td.table_offset + row_size * num_rows, a.i) EXCEPT
                      !.setters = a.setters]
          /\ oob' = (oob \/ Outside(a.rd) # {})
  /\ UNCHANGED <<data, pe, pc, com, sh, gd, us, stages, run, obj1, data2>>

\* lines 1023-1052 -----------------------------------------------------------
RECURSIVE ModuleRefRows(_, _)
ModuleRefRows(n, a) ==
  IF ~(a.i < n) \/ ~fits_in_pe(a.row_ptr, SIZEOF_MODULEREF_TABLE) THEN a
  ELSE
    LET idx == ReadIdx(a.row_ptr, td.string)
        name == GetString(idx)
    IN ModuleRefRows(n,
         [i |-> a.i + 1, row_ptr |-> a.row_ptr + td.string,
          counter |-> NextCounter(a.counter, name # NULL),
          obj |-> IF name # NULL
                  THEN SetVal(a.obj, Key("modulerefs", a.counter, ""), CStr(name))
                  ELSE a.obj,
          modrefs |-> Append(a.modrefs, [at |-> a.row_ptr, kept |-> name # NULL,
                                         counter |-> a.counter]),
          rd |-> a.rd \cup {<<a.row_ptr, td.string>>} \cup GetStringReads(idx)])

TableModuleRef ==
  /\ AtTable(BIT_MODULEREF)
  /\ LET a == ModuleRefRows(num_rows, [i |-> 0, row_ptr |-> td.table_offset, counter |-> 0,
                                       obj |-> obj, modrefs |-> <<>>,
                                       rd |-> {<<RowSlot, 4>>}])
     IN /\ obj' = SetVal(a.obj, Fld("number_of_modulerefs"), a.counter)
        /\ td' = [TdAdvance(td, td.table_offset + td.string * num_rows, a.i) EXCEPT
                    !.modrefs = a.modrefs]
        /\ oob' = (oob \/ Outside(a.rd) # {})
  /\ UNCHANGED <<data, pe, pc, com, sh, gd, us, stages, run, obj1, data2>>

\* lines 1072-1101 -----------------------------------------------------------
RECURSIVE FieldRvaRows(_, _, _)
FieldRvaRows(n, row_size, a) ==
  IF ~(a.i < n) \/ ~fits_in_pe(a.row_ptr, SIZEOF_FIELDRVA_TABLE) THEN a
  ELSE
    LET field_offset == pe_rva_to_offset(U32(a.row_ptr)) IN
    FieldRvaRows(n, row_size,
      [i |-> a.i + 1, row_ptr |-> a.row_ptr + row_size,
       counter |-> NextCounter(a.counter, field_offset >= 0),
       obj |-> IF field_offset >= 0
               THEN SetVal(a.obj, Key("field_offsets", a.counter, ""), field_offset)
               ELSE a.obj,
       rvas |-> Append(a.rvas, [at |-> a.row_ptr, kept |-> field_offset >= 0,
                                counter |-> a.counter]),
       rd |-> a.rd \cup {<<a.row_ptr, 4>>}])

TableFieldRVA ==
  /\ AtTable(BIT_FIELDRVA)
  /\ LET row_size == 4 + td.index_sizes[BIT_FIELD]
         a == FieldRvaRows(num_rows, row_size,
                           [i |-> 0, row_ptr |-> td.table_offset, counter |-> 0,
                            obj |-> obj, rvas |-> <<>>, rd |-> {<<RowSlot, 4>>}])
     IN /\ obj' = SetVal(a.obj, Fld("number_of_field_offsets"), a.counter)
        /\ td' = [TdAdvance(td, td.table_offset + row_size * num_rows, a.i) EXCEPT
                    !.rvas = a.rvas]
        /\ oob' = (oob \/ Outside(a.rd) # {})
  /\ UNCHANGED <<data, pe, pc, com, sh, gd, us, stages, run, obj1, data2>>

\* lines 1111-1185 -----------------------------------------------------------
AssemblyRowSize == 4 + 2 + 2 + 2 + 2 + 4 + td.blob + (td.string * 2)

\* the culture is reported whenever it resolves, empty or not
CultureEmitsEmpty(culture) == culture # NULL

\* line 1181: the culture is reported
CultureEmits(culture) == culture # NULL /\ Len(CStr(culture)) > 0

\* the table offset after the Assembly case
AssemblyNext(t, fits, n) == IF fits THEN t + AssemblyRowSize * n ELSE t

TableAssembly ==
  /\ AtTable(BIT_ASSEMBLY)
  /\ LET t == td.table_offset
         fits == fits_in_pe(t, AssemblyRowSize)
         namep == t + 4 + 2 + 2 + 2 + 2 + 4 + td.blob
         nameidx == ReadIdx(namep, td.string)
         name == GetString(nameidx)
         cultidx == ReadIdx(namep + td.string, td.string)
         culture == GetString(cultidx)
         o1 == SetVal(SetVal(SetVal(SetVal(obj,
                 Fld("assembly.version.major"), U16(t + 4)),
                 Fld("assembly.version.minor"), U16(t + 6)),
                 Fld("assembly.version.build_number"), U16(t + 8)),
                 Fld("assembly.version.revision_number"), U16(t + 10))
         o2 == IF name # NULL THEN SetVal(o1, Fld("assembly.name"), CStr(name)) ELSE o1
         o3 == IF CultureEmits(culture)
               THEN SetVal(o2, Fld("assembly.culture"), CStr(culture)) ELSE o2
         rd == {<<RowSlot, 4>>}
               \cup (IF fits
                     THEN {<<t + 4, 8>>, <<namep, td.string>>, <<namep + td.string, td.string>>}
                          \cup GetStringReads(nameidx) \cup GetStringReads(cultidx)
                     ELSE {})
     IN /\ obj' = IF fits THEN o3 ELSE obj
        /\ td' = TdAdvance(td, AssemblyNext(t, fits, num_rows), 0)
        /\ oob' = (oob \/ Outside(rd) # {})
  /\ UNCHANGED <<data, pe, pc, com, sh, gd, us, stages, run, obj1, data2>>

\* lines 1195-1285 -----------------------------------------------------------
\* the test of lines 1243-1244 without the decoder's verdict
AssemblyRefSkipsUnchecked(r, off2) == ~fits_in_pe(off2, r.length)

\* lines 1243-1244: the row's key and name are left out
AssemblyRefSkips(r, off2) == r.size = 0 \/ ~fits_in_pe(off2, r.length)

RECURSIVE AssemblyRefRows(_, _)
AssemblyRefRows(c, a) ==
  IF ~(a.i < c.num_rows) \/ ~fits_in_pe(a.row_ptr, c.row_size) THEN a
  ELSE
    LET p == a.row_ptr
        blob_offset == td.blob_heap + ReadIdx(p + 12, td.blob)
        r == dotnet_parse_blob_entry(blob_offset, c.jnk)
        off2 == blob_offset + r.size
        skip == AssemblyRefSkips(r, off2)
        namep == p + 2 + 2 + 2 + 2 + 4 + td.blob
        nameidx == ReadIdx(namep, td.string)
        name == GetString(nameidx)
        o1 == SetVal(SetVal(SetVal(SetVal(a.obj,
                 Key("assembly_refs", a.i, "version.major"), U16(p)),
                 Key("assembly_refs", a.i, "version.minor"), U16(p + 2)),
                 Key("assembly_refs", a.i, "version.build_number"), U16(p + 4)),
                 Key("assembly_refs", a.i, "version.revision_number"), U16(p + 6))
        o2 == IF r.length > 0
              THEN SetVal(o1, Key("assembly_refs", a.i, "public_key_or_token"),
                          Bytes(off2, r.length))
              ELSE o1
        o3 == IF name # NULL
              THEN SetVal(o2, Key("assembly_refs", a.i, "name"), CStr(name)) ELSE o2
        rd == {<<p, 8>>, <<p + 12, td.blob>>} \cup r.rd
              \cup (IF skip THEN {}
                    ELSE {<<off2, r.length>>, <<namep, td.string>>}
                         \cup GetStringReads(nameidx))
    IN AssemblyRefRows(c,
         [i |-> a.i + 1, row_ptr |-> p + c.row_size,
          obj |-> IF skip THEN o1 ELSE o3,
          undecoded |-> IF r.size = 0 THEN a.undecoded + 1 ELSE a.undecoded,
          refs |-> Append(a.refs, [at |-> p, decoded |-> r.size # 0,
                                   fits |-> fits_in_pe(off2, r.length),
                                   key_at |-> off2, length |-> r.length,
                                   named |-> name # NULL, name_at |-> name]),
          rd |-> a.rd \cup rd])

TableAssemblyRef ==
  /\ AtTable(BIT_ASSEMBLYREF)
  /\ \E jnk \in JunkVals :
       LET row_size == 2 + 2 + 2 + 2 + 4 + (td.blob * 2) + (td.string * 2)
           a == AssemblyRefRows([num_rows |-> num_rows, row_size |-> row_size, jnk |-> jnk],
                                [i |-> 0, row_ptr |-> td.table_offset, obj |-> obj,
                                 undecoded |-> 0, refs |-> <<>>,
                                 rd |-> {<<RowSlot, 4>>}])
       IN /\ obj' = SetVal(a.obj, Fld("number_of_assembly_refs"), a.i)
          /\ td' = [TdAdvance(td, td.table_offset + row_size * num_rows, a.i) EXCEPT
                      !.undecoded = a.undecoded, !.refs = a.refs]
          /\ oob' = (oob \/ Outside(a.rd) # {})
  /\ UNCHANGED <<data, pe, pc, com, sh, gd, us, stages, run, obj1, data2>>

\* lines 1315-1398 -----------------------------------------------------------
\* the filter on the tag bits of the coded index alone
TagElsewhere(implementation) == implementation % 4 # 0

\* line 1351: the resource lives in another file
ResourceElsewhere(implementation) == implementation # 0

\* lines 1357-1372: the resource's length prefix and body are in the buffer
ResourceFits(p) == fits_in_pe(p, 4) /\ fits_in_pe(p, U32(p))

RECURSIVE ManifestResourceRows(_, _)
ManifestResourceRows(c, a) ==
  IF ~(a.i < c.num_rows) \/ ~fits_in_pe(a.row_ptr, c.row_size) THEN a
  ELSE
    LET p == a.row_ptr
        resource_offset == U32(p)
        implp == p + 4 + 4 + td.string
        implementation == ReadIdx(implp, c.index_size)
        res == td.resource_base + resource_offset
        resource_size == U32(res)
        nameidx == ReadIdx(p + 8, td.string)
        name == GetString(nameidx)
        emit == ~ResourceElsewhere(implementation) /\ ResourceFits(res)
        o1 == SetVal(SetVal(a.obj,
                 Key("resources", a.counter, "offset"), res + 4),
                 Key("resources", a.counter, "length"), resource_size)
        o2 == IF name # NULL
              THEN SetVal(o1, Key("resources", a.counter, "name"), CStr(name)) ELSE o1
        rd == {<<p, 4>>, <<implp, c.index_size>>}
              \cup (IF ~ResourceElsewhere(implementation) /\ fits_in_pe(res, 4)
                    THEN {<<res, 4>>} ELSE {})
              \cup (IF emit THEN {<<p + 8, td.string>>} \cup GetStringReads(nameidx) ELSE {})
    IN ManifestResourceRows(c,
         [i |-> a.i + 1, row_ptr |-> p + c.row_size,
          counter |-> NextCounter(a.counter, emit),
          obj |-> IF emit THEN o2 ELSE a.obj,
          seen |-> Append(a.seen, [implementation |-> implementation, res |-> res,
                                   kept |-> emit, counter |-> a.counter]),
          rd |-> a.rd \cup rd])

TableManifestResource ==
  /\ AtTable(BIT_MANIFESTRESOURCE)
  /\ LET index_size == CodedSize(td.rows, {BIT_FILE, BIT_ASSEMBLYREF}, 2)
         row_size == 4 + 4 + td.string + index_size
         a == ManifestResourceRows([num_rows |-> num_rows, row_size |-> row_size,
                                    index_size |-> index_size],
                                   [i |-> 0, row_ptr |-> td.table_offset, counter |-> 0,
                                    obj |-> obj, seen |-> <<>>, rd |-> {<<RowSlot, 4>>}])
     IN /\ obj' = SetVal(a.obj, Fld("number_of_resources"), a.counter)
        /\ td' = [TdAdvance(td, td.table_offset + row_size * num_rows, a.i) EXCEPT
                    !.seen = a.seen]
        /\ oob' = (oob \/ Outside(a.rd) # {})
  /\ UNCHANGED <<data, pe, pc, com, sh, gd, us, stages, run, obj1, data2>>

(***************************************************************************)
(* dotnet_parse_us: the User-String heap walk.                             *)
(***************************************************************************)
\* an entry is emitted whenever its bytes fit, empty or not
UsEmitsEvenEmpty(off2, r) == fits_in_pe(off2, r.length)

\* line 236: the entry at the cursor (already past its prefix) is emitted
UsEmits(off2, r) == r.length > 0 /\ fits_in_pe(off2, r.length)

UsNextStuck(offset, r) ==
  IF UsEmits(offset + r.size, r) THEN offset + r.size + r.length ELSE offset

\* lines 232-247: the cursor after one iteration that decoded r at `offset`
UsNextOffset(offset, r) ==
  IF UsEmits(offset + r.size, r) THEN offset + r.size + r.length ELSE offset + r.size

\* lines 203-223
UsBegin ==
  /\ pc = "us"
  /\ LET hdr == com.headers.us
         ush_sz == U32(hdr + 4)
         offset == com.metadata_root + U32(hdr)
         ok1 == ~(ush_sz = 0 \/ ~fits_in_pe(offset, ush_sz))
         rd == {<<hdr, 8>>} \cup (IF ok1 THEN {<<offset, 1>>} ELSE {})
     IN /\ oob' = (oob \/ Outside(rd) # {})
        /\ stages' = Append(stages, "us")
        /\ IF ok1 /\ Byte(offset) = 0
           THEN /\ pc' = "us_loop"
                /\ us' = [UsIdle EXCEPT !.offset = offset + 1,
                                        !.end_of_header = offset + ush_sz]
           ELSE /\ pc' = "done"
                /\ us' = UsIdle
  /\ UNCHANGED <<data, pe, obj, com, sh, gd, td, run, obj1, data2>>

\* lines 225-248: one iteration of the loop
UsStep ==
  /\ pc = "us_loop"
  /\ us.offset < us.end_of_header
  /\ \E jnk \in JunkVals :
     LET r == dotnet_parse_blob_entry(us.offset, jnk)
         off2 == us.offset + r.size
         last == [made |-> TRUE, at |-> us.offset, size |-> r.size, length |-> r.length]
     IN IF r.size = 0
        THEN \* break, then line 250
             /\ oob' = (oob \/ Outside(r.rd) # {})
             /\ obj' = SetVal(obj, Fld("number_of_user_strings"), us.i)
             /\ us' = [us EXCEPT !.last = last, !.n = @ + 1]
             /\ pc' = "done"
        ELSE /\ oob' = (oob \/ Outside(r.rd \cup
                          (IF UsEmits(off2, r) THEN {<<off2, r.length>>} ELSE {})) # {})
             /\ obj' = IF UsEmits(off2, r)
                       THEN SetVal(obj, Key("user_strings", us.i, ""), Bytes(off2, r.length))
                       ELSE obj
             /\ us' = [us EXCEPT !.offset = UsNextOffset(us.offset, r),
                                 !.i = IF UsEmits(off2, r) THEN @ + 1 ELSE @,
                                 !.n = @ + 1,
                                 !.last = last]
             /\ pc' = "us_loop"
  /\ UNCHANGED <<data, pe, com, sh, gd, td, stages, run, obj1, data2>>

\* the loop condition fails: line 250
UsEnd ==
  /\ pc = "us_loop"
  /\ ~(us.offset < us.end_of_header)
  /\ obj' = SetVal(obj, Fld("number_of_user_strings"), us.i)
  /\ pc' = "done"
  /\ UNCHANGED <<data, pe, oob, com, sh, gd, td, us, stages, run, obj1, data2>>

(***************************************************************************)
(* Inputs.                                                                 *)
(***************************************************************************)
Le16(v) == <<v % 256, (v \div 256) % 256>>
Le32(v) == <<v % 256, (v \div 256) % 256, (v \div 65536) % 256, (v \div 16777216) % 256>>
SeqsUpTo(S, n) == UNION {[1..k -> S] : k \in 0..n}

PeNone == [dir |-> FALSE, dirVA |-> 0, is64 |-> FALSE, isDll |-> TRUE, entry |-> 0,
           numRva |-> 16, rvaLimit |-> 0]

\* bytes of a #US heap: NUL, the 1-, 2- and 4-byte prefixes of small lengths, 0xE0
UsBytes == {0, 2, 128, 192, 224}

\* a stream header "#US" at offset 0 declaring `size` bytes at offset 12, then the heap
UsImage(size, heap) == Le32(12) \o Le32(size) \o <<35, 85, 83, 0>> \o heap

\* dotnet_parse_us called on a buffer holding one #US stream
InitUs ==
  /\ \E heap \in SeqsUpTo(UsBytes, MaxUsLen) :
       \E size \in {0, Len(heap) - 1, Len(heap), Len(heap) + 1} \cap Nat :
         data = UsImage(size, heap)
  /\ pe = PeNone
  /\ pc = "us"
  /\ obj = NoFields
  /\ oob = FALSE
  /\ com = [ComIdle EXCEPT !.headers = [NoHeaders EXCEPT !.us = 0]]
  /\ sh = ShIdle /\ gd = GdIdle /\ td = TdIdle /\ us = UsIdle
  /\ stages = <<>>
  /\ run = 1 /\ obj1 = NoFields /\ data2 = <<>>

\* dotnet_parse_blob_entry called by itself, at any offset of a small buffer
BlobBytes == {0, 4, 5, 128, 192, 224}

InitBlob ==
  /\ data \in SeqsUpTo(BlobBytes, MaxBlobLen)
  /\ pe = PeNone
  /\ pc = "blob"
  /\ obj = NoFields
  /\ oob = FALSE
  /\ com = ComIdle /\ sh = ShIdle /\ gd = GdIdle /\ td = TdIdle /\ us = UsIdle
  /\ stages = <<>>
  /\ run = 1 /\ obj1 = NoFields /\ data2 = <<>>

\* a caller decodes the entry at `offset`, as the table handlers do with a blob index
BlobDecode ==
  /\ pc = "blob"
  /\ \E offset \in (-1)..(data_size + 1), jnk \in JunkVals :
       LET r == dotnet_parse_blob_entry(offset, jnk) IN
       /\ us' = [us EXCEPT !.last = [made |-> TRUE, at |-> offset, size |-> r.size,
                                     length |-> r.length]]
       /\ oob' = (oob \/ Outside(r.rd) # {})
  /\ pc' = "done"
  /\ UNCHANGED <<data, pe, obj, com, sh, gd, td, stages, run, obj1, data2>>

NextUs == UsBegin \/ UsStep \/ UsEnd

SpecBlob == (InitUs \/ InitBlob) /\ [][NextUs \/ BlobDecode]_vars

(***************************************************************************)
(* A managed image: CLI header, entry stub, one resource, metadata root,   *)
(* five streams.  `tl` puts the #~ stream after the heaps instead of       *)
(* before them.                                                            *)
(***************************************************************************)
Zeros(n) == [k \in 1..n |-> 0]

\* "", "M", "GuidAttribute", "A", "R", "K", "Z" at 0, 1, 3, 17, 19, 21, 23
StringsHeap ==
  <<0, 77, 0>> \o GUID_ATTRIBUTE \o <<0, 65, 0, 82, 0, 75, 0, 90, 0>> \o Zeros(3)

\* 0: empty; 1: a 2-byte key; 5: attribute value "Lib"; 14: the string constant "hi";
\* 19: attribute value "X"
BlobHeap ==
  <<0>> \o <<3, 17, 34, 51>> \o <<8, 1, 0, 3, 76, 105, 98, 0, 0>>
  \o <<5, 104, 0, 105, 0>> \o <<6, 1, 0, 1, 88, 0, 0>> \o Zeros(2)

UsHeap == <<0, 3, 104, 0>>

GuidHeap == <<1, 2, 3, 4, 5, 6, 7, 8, 9, 10, 11, 12, 13, 14, 15, 16>>

\* Valid = Module, TypeRef, TypeDef, MemberRef, Constant, CustomAttribute, ModuleRef,
\* FieldRVA, Assembly, AssemblyRef, ManifestResource
TildeHeader == Le32(0) \o <<2, 0, 0, 1>> \o <<7, 28, 0, 36, 9, 1, 0, 0>> \o Zeros(8)

RowCounts ==
  Le32(1) \o Le32(2) \o Le32(1) \o Le32(2) \o Le32(2) \o Le32(2) \o Le32(1) \o Le32(1)
  \o Le32(1) \o Le32(1) \o Le32(2)

\* the rows of the tables; `entry` is the RVA the FieldRVA row points at
Tables(entry) ==
  (Le16(0) \o Le16(1) \o Le16(1) \o Le16(0) \o Le16(0))                     \* Module
  \o (Le16(6) \o Le16(3) \o Le16(0)) \o (Le16(6) \o Le16(23) \o Le16(0))     \* TypeRef
  \o Zeros(14)                                                               \* TypeDef
  \o (Le16(9) \o Le16(0) \o Le16(0)) \o (Le16(17) \o Le16(0) \o Le16(0))     \* MemberRef
  \o (<<14, 0>> \o Le16(4) \o Le16(14)) \o (<<8, 0>> \o Le16(4) \o Le16(1))  \* Constant
  \o (Le16(46) \o Le16(11) \o Le16(5)) \o (Le16(46) \o Le16(19) \o Le16(19)) \* CustomAttribute
  \o Le16(21)                                                                \* ModuleRef
  \o (Le32(entry) \o Le16(1))                                                \* FieldRVA
  \o (Le32(32772) \o Le16(1) \o Le16(0) \o Le16(0) \o Le16(0) \o Le32(1)
      \o Le16(1) \o Le16(17) \o Le16(0))                                     \* Assembly
  \o (Le16(4) \o Le16(0) \o Le16(0) \o Le16(0) \o Le32(0) \o Le16(0) \o Le16(23)
      \o Le16(0) \o Le16(0))                                                 \* AssemblyRef
  \o (Le32(0) \o Le32(1) \o Le16(19) \o Le16(0))
  \o (Le32(0) \o Le32(1) \o Le16(19) \o Le16(5))                             \* ManifestResource

EntryStub == <<255, 37, 0, 0>>

Resource == Le32(3) \o <<97, 98, 99, 0>>

CliHeader(metadata, resources) ==
  Le32(SIZEOF_CLI_HEADER) \o Le16(2) \o Le16(5) \o Le32(metadata) \o Le32(0) \o Le32(1)
  \o Le32(0) \o Le32(resources) \o Le32(Len(Resource)) \o Zeros(40)

MetadataRoot == NET_METADATA_MAGIC \o Le16(1) \o Le16(1) \o Le32(0) \o Le32(4)
                \o <<118, 52, 0, 0>> \o Le16(0) \o Le16(5)

StreamHeaders(t, s, u, g, b, tsize) ==
  (Le32(t) \o Le32(tsize) \o S_TILDE \o Zeros(2))
  \o (Le32(s) \o Le32(Len(StringsHeap)) \o S_STRINGS \o Zeros(4))
  \o (Le32(u) \o Le32(Len(UsHeap)) \o S_US \o Zeros(1))
  \o (Le32(g) \o Le32(Len(GuidHeap)) \o S_GUID \o Zeros(3))
  \o (Le32(b) \o Le32(Len(BlobHeap)) \o S_BLOB \o Zeros(3))

Image(tl) ==
  LET entry == SIZEOF_CLI_HEADER
      res == entry + Len(EntryStub)
      root == res + Len(Resource)
      tilde == TildeHeader \o RowCounts \o Tables(entry)
      heaps == StringsHeap \o UsHeap \o GuidHeap \o BlobHeap
      h0 == Len(MetadataRoot) + Len(StreamHeaders(0, 0, 0, 0, 0, 0))
      t == IF tl THEN h0 + Len(heaps) ELSE h0
      s == IF tl THEN h0 ELSE h0 + Len(tilde)
      u == s + Len(StringsHeap)
      g == u + Len(UsHeap)
      b == g + Len(GuidHeap)
  IN CliHeader(root, res) \o EntryStub \o Resource \o MetadataRoot
     \o StreamHeaders(t, s, u, g, b, Len(tilde))
     \o (IF tl THEN heaps \o tilde ELSE tilde \o heaps)

\* the PE collaborator's answers for Image: a 32-bit executable whose RVAs are file
\* offsets, with the entry point on the stub
PeImage == [dir |-> TRUE, dirVA |-> 0, is64 |-> FALSE, isDll |-> FALSE,
            entry |-> SIZEOF_CLI_HEADER, numRva |-> 16, rvaLimit |-> 4096]

\* other answers of the collaborator for the same bytes
PeAnswers ==
  {[dir |-> d, dirVA |-> 0, is64 |-> w, isDll |-> l, entry |-> e, numRva |-> n,
    rvaLimit |-> m] :
     d \in BOOLEAN, w \in BOOLEAN, l \in BOOLEAN,
     e \in {SIZEOF_CLI_HEADER, SIZEOF_CLI_HEADER + 1, 5000},
     n \in {13, 16}, m \in {4096, 80, 0}}

MaxDamage == 3         \* how many replacement values a damaged byte is tried with

DamageVals == <<255, 128, 0, 17, 1>>

\* Image with byte k (from 1) replaced by v
Damaged(img, k, v) == [j \in 1..Len(img) |-> IF j = k THEN v ELSE img[j]]

Prefixes(img) == {SubSeq(img, 1, n) : n \in 0..Len(img)}

Images == {Image(tl) : tl \in BOOLEAN}

\* the inputs of dotnet_parse_com: the images with every collaborator answer, their
\* truncations, and their single-byte damages
Inputs ==
  {[data |-> img, pe |-> p] : img \in Images, p \in PeAnswers}
  \cup {[data |-> d, pe |-> PeImage] : d \in UNION {Prefixes(img) : img \in Images}}
  \cup {[data |-> Damaged(img, k, DamageVals[v]), pe |-> PeImage] :
          img \in Images, k \in 1..Len(Image(TRUE)), v \in 1..MaxDamage}

\* the image an input is a truncation of, if any
TruncationOf(d) == {img \in Images : Len(d) < Len(img) /\ d = SubSeq(img, 1, Len(d))}

InitLocals ==
  /\ pc = "start"
  /\ obj = NoFields
  /\ oob = FALSE
  /\ com = ComIdle
  /\ sh = ShIdle
  /\ gd = GdIdle
  /\ td = TdIdle
  /\ us = UsIdle
  /\ stages = <<>>
  /\ run = 1
  /\ obj1 = NoFields

\* one call of dotnet_parse_com
Init ==
  /\ \E inp \in Inputs : data = inp.data /\ pe = inp.pe
  /\ data2 = <<>>
  /\ InitLocals

\* two calls: on the same buffer, or first on a truncation of an image and then on
\* the image
InitTwo ==
  /\ \E inp \in Inputs :
       /\ data = inp.data
       /\ pe = inp.pe
       /\ data2 \in {inp.data} \cup TruncationOf(inp.data)
  /\ InitLocals

\* the second call, into a fresh object; the locals keep what the first call left
Restart ==
  /\ pc = "done"
  /\ run = 1
  /\ run' = 2
  /\ obj1' = obj
  /\ obj' = NoFields
  /\ data' = data2
  /\ data2' = data
  /\ stages' = <<>>
  /\ pc' = "start"
  /\ UNCHANGED <<pe, oob, com, sh, gd, td, us>>

Tables2 ==
  \/ TableModule
  \/ TableTypeRef
  \/ TableMemberRef
  \/ TableConstant
  \/ TableCustomAttribute
  \/ TableModuleRef
  \/ TableFieldRVA
  \/ TableAssembly
  \/ TableAssemblyRef
  \/ TableManifestResource
  \/ TableSkip
  \/ Tilde2Abort
  \/ Tilde2End

Next ==
  \/ Probe
  \/ ParseRoot
  \/ StreamStep
  \/ StreamsEnd
  \/ GuidBegin
  \/ GuidStep
  \/ GuidEnd
  \/ ParseTilde
  \/ Tables2
  \/ UsBegin
  \/ UsStep
  \/ UsEnd

Spec == Init /\ [][Next]_vars

SpecTwo == InitTwo /\ [][Next \/ Restart]_vars

(***************************************************************************)
(* The blob decoder (checked under SpecBlob).                              *)
(***************************************************************************)
LastB(k) == Byte(us.last.at + k)
InWalk == stages = <<"us">>
UserStringIdx == {k[2] : k \in {x \in DOMAIN obj : x[1] = "user_strings"}}

\* C8 (as claimed): a 4-byte prefix whose four bytes all lie inside the buffer
\* decodes with consumed = 4 and length = the 29-bit value, less one when nonzero.
C8_Blob4AsClaimed ==
  (us.last.made /\ InBuf(us.last.at) /\ LastB(0) \in 192..223 /\ InBuf(us.last.at + 3))
    => /\ us.last.size = 4
       /\ us.last.length = Dec(16777216 * (LastB(0) - 192) + 65536 * LastB(1)
                               + 256 * LastB(2) + LastB(3))

\* C9: a first byte with high bit 0 decodes with consumed = 1, a first byte with top
\* bits 10 and its second byte in the buffer with consumed = 2; the length is the raw
\* length, less one when nonzero.
C9_BlobShortForms ==
  us.last.made =>
    /\ (InBuf(us.last.at) /\ LastB(0) < 128)
         => (us.last.size = 1 /\ us.last.length = Dec(LastB(0)))
    /\ (InBuf(us.last.at) /\ LastB(0) \in 128..191 /\ InBuf(us.last.at + 1))
         => (us.last.size = 2 /\ us.last.length = Dec(256 * (LastB(0) - 128) + LastB(1)))

C9_Witness ==
  /\ us.last.made /\ InWalk
  /\ us.last.size = 2 /\ us.last.length = 1
  /\ Has(obj, Key("user_strings", 0, "")) /\ Len(obj[Key("user_strings", 0, "")]) = 1

\* C10: the decode fails (consumed = 0) when the first byte or a continuation byte the
\* prefix needs is outside the buffer, or the top three bits are 111; a failed decode in
\* the User-String walk ends the walk at that cursor with the strings emitted so far.
C10_BlobFailure ==
  us.last.made =>
    /\ ( \/ ~InBuf(us.last.at)
         \/ (LastB(0) \in 128..191 /\ ~InBuf(us.last.at + 1))
         \/ (LastB(0) \in 192..223 /\ ~InBuf(us.last.at + 3))
         \/ LastB(0) >= 224 ) => us.last.size = 0
    /\ (InWalk /\ us.last.size = 0)
         => /\ pc = "done"
            /\ us.offset = us.last.at
            /\ Has(obj, Fld("number_of_user_strings"))
            /\ obj[Fld("number_of_user_strings")] = us.i
            /\ UserStringIdx = 0..(us.i - 1)

C10_Witness ==
  /\ us.last.made /\ InWalk /\ us.last.size = 0 /\ LastB(0) = 224
  /\ us.i = 1 /\ pc = "done"

(***************************************************************************)
(* dotnet_parse_com as a whole (checked under Spec and SpecTwo).           *)
(***************************************************************************)
FullLength == Len(Image(TRUE))
Done == pc = "done"
Ran(stage) == \E k \in 1..Len(stages) : stages[k] = stage
Counters == {k \in DOMAIN obj \cup DOMAIN obj1 : k[1] \in
               {"number_of_streams", "number_of_guids", "number_of_constants",
                "number_of_modulerefs", "number_of_field_offsets",
                "number_of_assembly_refs", "number_of_resources",
                "number_of_user_strings"}}

\* C1: every byte range the parser dereferences, in every stage and through every
\* offset computed from values of the file, lies inside [0, data_size).
C1_ReadsInBounds == ~oob

\* a damaged image on which the attribute chase, the resource lookup, the GUID heap
\* and the User-String heap have all been read
C1_Witness ==
  /\ Done /\ ~oob
  /\ data \notin Images /\ Len(data) = FullLength
  /\ Has(obj, Fld("typelib"))
  /\ Has(obj, Key("resources", 0, "offset"))
  /\ Has(obj, Key("guids", 0, ""))
  /\ Has(obj, Key("user_strings", 0, ""))
  /\ Has(obj, Key("constants", 0, ""))

\* C2: once the probe has failed, the call is over and is_dotnet = 0 is the only field
\* of the output object.
C2_FailedProbeSetsOnlyFlag ==
  (run = 1 /\ pc # "start" /\ ~dotnet_is_dotnet.ok)
    => (Done /\ DOMAIN obj = {Fld("is_dotnet")} /\ obj[Fld("is_dotnet")] = 0)

\* the probe fails at the metadata magic, after the CLI header was accepted
C2_Witness ==
  /\ Done /\ ~dotnet_is_dotnet.ok
  /\ pe = PeImage /\ Len(data) = FullLength
  /\ U32(0) = SIZEOF_CLI_HEADER
  /\ Bytes(pe_rva_to_offset(U32(8)), 4) # NET_METADATA_MAGIC
  /\ obj[Fld("is_dotnet")] = 0

\* the conditions of the probe, as the claim lists them
CliHeaderAccepted ==
  /\ pe.dir
  /\ pe_rva_to_offset(pe.dirVA) >= 0
  /\ fits_in_pe(pe_rva_to_offset(pe.dirVA), SIZEOF_CLI_HEADER)
  /\ U32(pe_rva_to_offset(pe.dirVA)) = SIZEOF_CLI_HEADER

RootOf == pe_rva_to_offset(U32(pe_rva_to_offset(pe.dirVA) + 8))

RootAccepted ==
  /\ fits_in_pe(RootOf, SIZEOF_NET_METADATA)
  /\ Bytes(RootOf, 4) = NET_METADATA_MAGIC

VersionAccepted ==
  /\ U32(RootOf + 12) \in 1..255
  /\ U32(RootOf + 12) % 4 = 0
  /\ fits_in_pe(RootOf + SIZEOF_NET_METADATA, U32(RootOf + 12))

EntryAccepted ==
  (~pe.is64 /\ ~pe.isDll)
    => /\ pe_rva_to_offset(pe.entry) >= 0
       /\ fits_in_pe(pe_rva_to_offset(pe.entry), 2)
       /\ Bytes(pe_rva_to_offset(pe.entry), 2) = <<255, 37>>

DirectoriesAccepted == pe.is64 => pe.numRva >= IMAGE_DIRECTORY_ENTRY_COM_DESCRIPTOR

\* C3 (as claimed): is_dotnet is 1 exactly when the CLI header, the metadata root, the
\* version length and, for a 32-bit executable, the entry stub are accepted; nothing
\* else, and nothing about 64-bit images, matters.
C3_ProbeAsClaimed ==
  (run = 1 /\ Has(obj, Fld("is_dotnet")))
    => (obj[Fld("is_dotnet")] = 1
          <=> (CliHeaderAccepted /\ RootAccepted /\ VersionAccepted /\ EntryAccepted))

\* C3 (amended): is_dotnet is 1 exactly when those conditions hold and, for a 64-bit
\* image, the optional header declares at least 14 data directories.
C3_ProbeWithDirectories ==
  (run = 1 /\ Has(obj, Fld("is_dotnet")))
    => (obj[Fld("is_dotnet")] = 1
          <=> (CliHeaderAccepted /\ RootAccepted /\ VersionAccepted /\ EntryAccepted
               /\ DirectoriesAccepted))

\* a 64-bit image with 13 data directories and otherwise acceptable is rejected
C3_Witness ==
  /\ Done /\ pe.is64 /\ pe.numRva < IMAGE_DIRECTORY_ENTRY_COM_DESCRIPTOR
  /\ CliHeaderAccepted /\ RootAccepted /\ VersionAccepted
  /\ obj[Fld("is_dotnet")] = 0

StageRank(s) == CASE s = "streams" -> 0 [] s = "guid" -> 1 [] s = "tilde" -> 2
                  [] s = "us" -> 3

\* C4: the stages are entered in the order stream directory, GUID heap, tables,
\* User-String heap, each at most once; when the call is over after a stream-directory
\* walk, the GUID heap was entered iff a #GUID stream was captured, the tables iff a
\* tilde, a #Strings and a #Blob stream were captured, the User-String heap iff a #US
\* stream was captured, whatever happened inside the earlier stages.
C4_StageOrder ==
  /\ \A i, j \in 1..Len(stages) : i < j => StageRank(stages[i]) < StageRank(stages[j])
  /\ (Done /\ Ran("streams"))
       => /\ Ran("guid") <=> com.headers.guid # NULL
          /\ Ran("tilde") <=> (com.headers.tilde # NULL /\ com.headers.string # NULL
                               /\ com.headers.blob # NULL)
          /\ Ran("us") <=> com.headers.us # NULL

\* the second table pass returned early at a row count over the cap, and the user
\* strings were parsed all the same
C4_Witness ==
  /\ Done /\ stages = <<"streams", "guid", "tilde", "us">>
  /\ td.bit_check < NUM_BITS /\ RowsReadable /\ ~RowsCapped(num_rows)
  /\ Has(obj, Key("user_strings", 0, ""))
  /\ Has(obj, Key("guids", 0, ""))

\* C5: two calls on the same buffer with the same collaborator answers, each into a
\* fresh object, leave equal objects.
C5_Deterministic == (run = 2 /\ Done /\ data = data2) => obj = obj1

\* both calls met an AssemblyRef key that does not decode (its length is never
\* assigned) and an attribute value was extracted
C5_Witness ==
  /\ run = 2 /\ Done /\ data = data2
  /\ td.undecoded > 0
  /\ Has(obj, Key("assembly_refs", 0, "version.major"))
  /\ ~Has(obj, Key("assembly_refs", 0, "name"))
  /\ Has(obj, Fld("typelib"))
  /\ obj = obj1

\* C6 (as claimed): what is reported for a truncation of an image is a subset of what is
\* reported for the image: no field or array entry that the image lacks, no counter
\* above the image's.
C6_TruncationReportsLess ==
  (run = 2 /\ Done /\ data \in Images /\ data \in TruncationOf(data2))
    => /\ DOMAIN obj1 \subseteq DOMAIN obj
       /\ \A k \in Counters : Has(obj1, k) => obj1[k] <= obj[k]

Level(p) == CASE p = "start" -> 7 [] p = "root" -> 6 [] p = "streams" -> 5
              [] p \in {"guid", "guid_loop"} -> 4 [] p = "tilde" -> 3 [] p = "tilde2" -> 2
              [] p \in {"us", "us_loop"} -> 1 [] OTHER -> 0

\* what is left of the loop the call is in
Inner ==
  CASE pc = "streams" -> 256 - sh.i
    [] pc = "guid" -> 17
    [] pc = "guid_loop" -> gd.guid_size \div 16
    [] pc = "tilde2" -> NUM_BITS - td.bit_check
    [] pc = "us" -> data_size + 2
    [] pc = "us_loop" -> 1 + Max2(0, us.end_of_header - us.offset)
    [] OTHER -> 0

\* a natural number that every step of the call decreases
Rank == Level(pc) * (data_size + 300) + Inner

LoopCounts ==
  /\ pc = "streams" => sh.i <= com.num_streams
  /\ pc = "guid_loop" => gd.i <= 16
  /\ pc = "tilde2" => (td.iters <= MAX_ROWS /\ td.tables <= NUM_BITS)

\* C7: the call terminates: every step decreases a natural-number rank; the
\* stream-directory loop runs at most the declared count, the GUID loop at most 16
\* times, a row loop at most 10000 times, over at most 64 tables; an iteration of the
\* User-String loop that continues has moved the cursor forward.
C7_Terminates ==
  /\ [](LoopCounts /\ Rank >= 0)
  /\ [][ /\ Rank' < Rank
         /\ (pc = "us_loop" /\ pc' = "us_loop") => us'.offset > us.offset ]_vars

\* the walk went on past an entry whose nonzero length does not fit the buffer
C7_Witness ==
  /\ pc = "us_loop" /\ Ran("tilde")
  /\ us.last.made /\ us.last.size > 0 /\ us.last.length > 0
  /\ ~fits_in_pe(us.last.at + us.last.size, us.last.length)
  /\ us.offset = us.last.at + us.last.size
  /\ us.i = 0 /\ us.n = 1

(***************************************************************************)
(* The tables (checked under Spec).                                        *)
(***************************************************************************)
\* the #~ header the captured stream header points at
TildeAt == com.metadata_root + U32(com.headers.tilde)

\* both table passes are over
TablesOver == Ran("tilde") /\ pc \in {"us", "us_loop", "done"}

\* the stored row count of present table b
RowCountOf(b) == U32(TildeAt + SIZEOF_TILDE_HEADER + 4 * MatchedBits(TildeAt, b))

\* some present table declares more rows than the cap
SomeCountOverCap ==
  /\ fits_in_pe(TildeAt, SIZEOF_TILDE_HEADER)
  /\ \E b \in 0..(NUM_BITS - 1) :
       /\ ValidBit(TildeAt, b)
       /\ fits_in_pe(TildeAt + SIZEOF_TILDE_HEADER + 4 * MatchedBits(TildeAt, b), 4)
       /\ RowCountOf(b) > MAX_ROWS

TableFields ==
  {"module_name", "constants", "number_of_constants", "typelib", "modulerefs",
   "number_of_modulerefs", "field_offsets", "number_of_field_offsets",
   "assembly.version.major", "assembly.version.minor", "assembly.version.build_number",
   "assembly.version.revision_number", "assembly.name", "assembly.culture",
   "assembly_refs", "number_of_assembly_refs", "resources", "number_of_resources"}

TableKeys(o) == {k \in DOMAIN o : k[1] \in TableFields}

\* C11 (as claimed): when some present table declares more than 10000 rows, no
\* table-derived field is reported, wherever that table stands among the present ones.
C11_CapAbortsAll ==
  (run = 1 /\ TablesOver /\ SomeCountOverCap) => TableKeys(obj) = {}

(***************************************************************************)
(* The stream directory (checked under SpecStreams): a metadata root whose *)
(* directory holds up to MaxStreams records with names drawn from the      *)
(* recognised ones, an unrecognised one and one that fills the name window.*)
(***************************************************************************)
MaxStreams == 3

S_OTHER == <<35, 88>>                              \* "#X"
S_LONG == [k \in 1..DOTNET_STREAM_NAME_SIZE |-> 65]

DirNames == {S_TILDE, S_MINUS, S_GUID, S_STRINGS, S_BLOB, S_US, S_OTHER, S_LONG}

\* record i of a directory: Offset, Size, Name padded to a multiple of 4
DirRecord(name, i) ==
  Le32(16 * (i + 1)) \o Le32(i + 1) \o name \o Zeros(4 - (Len(name) % 4))

RECURSIVE Directory(_, _)
Directory(names, i) ==
  IF i >= Len(names) THEN <<>>
  ELSE DirRecord(names[i + 1], i) \o Directory(names, i + 1)

\* an image that ends with its stream directory, declaring lo + 256 * hi streams
DirImage(names, lo, hi, pad) ==
  LET res == SIZEOF_CLI_HEADER + Len(EntryStub)
      root == res + Len(Resource)
  IN CliHeader(root, res) \o EntryStub \o Resource
     \o NET_METADATA_MAGIC \o Le16(1) \o Le16(1) \o Le32(0) \o Le32(4)
     \o <<118, 52, 0, 0>> \o Le16(0) \o <<lo, hi>>
     \o Directory(names, 0) \o Zeros(pad)

InitStreams ==
  /\ \E names \in SeqsUpTo(DirNames, MaxStreams) :
       \E lo \in 0..(Len(names) + 1), hi \in {0, 1}, pad \in {0, DOTNET_STREAM_NAME_SIZE} :
         data = DirImage(names, lo, hi, pad)
  /\ pe = PeImage
  /\ data2 = <<>>
  /\ InitLocals

NextStreams == Probe \/ ParseRoot \/ StreamStep \/ StreamsEnd

SpecStreams == InitStreams /\ [][NextStreams]_vars

\* the walk of the directory is over
WalkOver == run = 1 /\ stages = <<"streams">> /\ pc # "streams"

RECURSIVE RecordAt(_)
\* where the walk finds record i
RecordAt(i) ==
  IF i = 0 THEN com.offset
  ELSE StreamAdvance(RecordAt(i - 1), StreamName(RecordAt(i - 1)))

\* the records the walk has named
Walked == {RecordAt(i) : i \in 0..(sh.i - 1)}

\* the first walked record whose name is one of `lits`, or NULL
FirstNamed(lits) ==
  LET S == {h \in Walked : \E lit \in lits : StartsWith(StreamName(h), lit)}
  IN IF S = {} THEN NULL ELSE Min(S)

\* C12 (as claimed): each typed reference is the first record, in directory order,
\* that bears the name of its kind; a later record of that name never replaces it.
C12_FirstOccurrence ==
  WalkOver =>
    /\ com.headers.tilde = FirstNamed({S_TILDE, S_MINUS})
    /\ com.headers.string = FirstNamed({S_STRINGS})
    /\ com.headers.us = FirstNamed({S_US})
    /\ com.headers.guid = FirstNamed({S_GUID})
    /\ com.headers.blob = FirstNamed({S_BLOB})

\* the 16-bit stream count of the metadata root (line 1749 reads it)
DeclaredStreams == U16(com.offset - 2)

RECURSIVE CountFitting(_, _, _)
\* how many of the first n records, from record i at h on, can be read and named
CountFitting(i, h, n) ==
  IF i < n /\ StreamFits(h)
  THEN CountFitting(i + 1, StreamAdvance(h, StreamName(h)), n)
  ELSE i

StreamIdx(o) == {k[2] : k \in {x \in DOMAIN o : x[1] = "streams"}}

\* streams[0 .. n-1] are the first n records of the directory
StreamsAre(n) ==
  /\ StreamIdx(obj) = 0..(n - 1)
  /\ \A i \in 0..(n - 1) :
       /\ Has(obj, Key("streams", i, "name")) /\ Has(obj, Key("streams", i, "offset"))
       /\ Has(obj, Key("streams", i, "size"))
       /\ obj[Key("streams", i, "name")] = StreamName(RecordAt(i))
       /\ obj[Key("streams", i, "offset")] = com.metadata_root + U32(RecordAt(i))
       /\ obj[Key("streams", i, "size")] = U32(RecordAt(i) + 4)

\* C13 (as claimed): with N the 16-bit stream count, the walk reports the records in
\* directory order up to the first one that cannot be read or named or until N have
\* been reported, and number_of_streams is how many it reported.
C13_WalkAsDeclared ==
  WalkOver =>
    /\ Has(obj, Fld("number_of_streams"))
    /\ obj[Fld("number_of_streams")] = CountFitting(0, com.offset, DeclaredStreams)
    /\ StreamsAre(CountFitting(0, com.offset, DeclaredStreams))

(***************************************************************************)
(* The #GUID heap (checked under SpecGuid): a buffer holding one #GUID     *)
(* stream header and a heap of up to MaxGuids records, whole or cut short. *)
(***************************************************************************)
MaxGuids == 18

\* record j of the heap: sixteen bytes that tell the records apart
GuidRecord(j) == [k \in 1..16 |-> (16 * j + k) % 256]

RECURSIVE GuidRecords(_)
GuidRecords(n) == IF n = 0 THEN <<>> ELSE GuidRecords(n - 1) \o GuidRecord(n - 1)

\* a stream header "#GUID" at offset 0 declaring `size` (four bytes, as stored) at
\* offset 16, then n whole records and `cut` bytes of one more
GuidImage(size, n, cut) ==
  Le32(16) \o size \o S_GUID \o Zeros(3) \o GuidRecords(n) \o SubSeq(GuidRecord(n), 1, cut)

\* declared sizes: around one record, around the cap, and beyond any buffer
GuidSizes ==
  {Le32(v) : v \in {0, 15, 16, 17, 47, 255, 256, 257, 271, 272, 288, 4096}}
  \cup {<<0, 0, 0, 255>>}

InitGuid ==
  /\ \E size \in GuidSizes, n \in 0..MaxGuids, cut \in {0, 15} :
       data = GuidImage(size, n, cut)
  /\ pe = PeNone
  /\ pc = "guid"
  /\ obj = NoFields
  /\ oob = FALSE
  /\ com = [ComIdle EXCEPT !.headers = [NoHeaders EXCEPT !.guid = 0]]
  /\ sh = ShIdle /\ gd = GdIdle /\ td = TdIdle /\ us = UsIdle
  /\ stages = <<>>
  /\ run = 1 /\ obj1 = NoFields /\ data2 = <<>>

NextGuid == GuidBegin \/ GuidStep \/ GuidEnd

SpecGuid == InitGuid /\ [][NextGuid]_vars

GuidOver == run = 1 /\ Ran("guid") /\ pc # "guid_loop"

GuidHeapAt == com.metadata_root + U32(com.headers.guid)
GuidDeclared == U32(com.headers.guid + 4)

\* the largest k <= min(16, size / 16) such that the first k records fit
GuidsExpected ==
  LET cap == IF GuidDeclared \div 16 < 16 THEN GuidDeclared \div 16 ELSE 16
      ok(k) == \A j \in 0..(k - 1) : fits_in_pe(GuidHeapAt + 16 * j, 16)
  IN CHOOSE k \in 0..cap : ok(k) /\ \A m \in (k + 1)..cap : ~ok(m)

GuidIdx(o) == {k[2] : k \in {x \in DOMAIN o : x[1] = "guids"}}

\* C14: the GUID heap yields at most 16 GUIDs; number_of_guids is the largest
\* k <= min(16, size / 16) such that the first k 16-byte records fit the buffer, and
\* guids[0 .. k-1] are the texts of those records, in order.
C14_GuidCap ==
  GuidOver =>
    /\ Has(obj, Fld("number_of_guids"))
    /\ obj[Fld("number_of_guids")] = GuidsExpected
    /\ GuidsExpected <= 16
    /\ GuidIdx(obj) = 0..(GuidsExpected - 1)
    /\ \A j \in GuidIdx(obj) : obj[Key("guids", j, "")] = GuidText(GuidHeapAt + 16 * j)

\* seventeen records fit and more than sixteen are declared; sixteen are reported
C14_Witness ==
  /\ GuidOver /\ stages = <<"guid">>
  /\ GuidDeclared >= 17 * 16
  /\ fits_in_pe(GuidHeapAt, 17 * 16)
  /\ obj[Fld("number_of_guids")] = 16
  /\ ~Has(obj, Key("guids", 16, ""))

(***************************************************************************)
(* The User-String heap (checked under SpecBlob).                          *)
(***************************************************************************)
UsOver == run = 1 /\ Ran("us") /\ pc = "done"

UsHeapAt == com.metadata_root + U32(com.headers.us)
UsDeclared == U32(com.headers.us + 4)

\* the heap is walked at all
UsAccepted == UsDeclared # 0 /\ fits_in_pe(UsHeapAt, UsDeclared) /\ Byte(UsHeapAt) = 0

RECURSIVE UsStrings(_, _)
\* the strings the walk described by C15 emits from `cursor` on, appended to `found`
UsStrings(cursor, found) ==
  IF ~(cursor < UsHeapAt + UsDeclared) THEN found
  ELSE LET r == dotnet_parse_blob_entry(cursor, 0)
           body == cursor + r.size
       IN IF r.size = 0 THEN found
          ELSE IF r.length # 0 /\ fits_in_pe(body, r.length)
            THEN UsStrings(body + r.length, Append(found, Bytes(body, r.length)))
          ELSE UsStrings(body, found)

MaxSlack == 2

\* run lengths: short ones and those around the reader's limit
RunLengths ==
  (0..MaxSlack) \cup ((MAX_STRING_SCAN - 1)..(MAX_STRING_SCAN + MaxSlack))

\* three stream headers (#~, #Strings, #Blob), a #~ stream with the Module table
\* only, and the heap: `n` bytes 'a', then a NUL if `term`
StringImage(n, term, idx) ==
  LET tilde == Le32(0) \o <<2, 0, 0, 1>> \o <<1, 0, 0, 0, 0, 0, 0, 0>> \o Zeros(8)
               \o Le32(1)
               \o (Le16(0) \o Le16(idx) \o Le16(0) \o Le16(0) \o Le16(0)) \o Zeros(8)
      heap == [k \in 1..n |-> 97] \o (IF term THEN <<0>> ELSE <<>>)
      t == 48
      h == t + Len(tilde)
  IN (Le32(t) \o Le32(Len(tilde)) \o S_TILDE \o Zeros(2))
     \o (Le32(h) \o Le32(Len(heap)) \o S_STRINGS \o Zeros(4))
     \o (Le32(h) \o Le32(0) \o S_BLOB \o Zeros(3))
     \o tilde \o heap

InitString ==
  /\ \E n \in RunLengths, term \in BOOLEAN :
       \E idx \in (0..MaxSlack) \cup {n, n + 1, n + 2, 60000} :
         data = StringImage(n, term, idx)
  /\ pe = PeNone
  /\ pc = "tilde"
  /\ obj = NoFields
  /\ oob = FALSE
  /\ com = [ComIdle EXCEPT !.headers = [NoHeaders EXCEPT !.tilde = 0, !.string = 12,
                                                          !.blob = 32]]
  /\ sh = ShIdle /\ gd = GdIdle /\ td = TdIdle /\ us = UsIdle
  /\ stages = <<>>
  /\ run = 1 /\ obj1 = NoFields /\ data2 = <<>>

NextString == ParseTilde \/ TableModule \/ Tilde2End

SpecString == InitString /\ [][NextString]_vars

\* the first row of the first table
FirstRowAt == TildeAt + SIZEOF_TILDE_HEADER + 4 * MatchedBits(TildeAt, NUM_BITS)

StringHeapAt == com.metadata_root + U32(com.headers.string)

\* the Module case has looked its Name up
ModuleLooked ==
  /\ run = 1 /\ Ran("tilde") /\ td.tables >= 1
  /\ ValidBit(TildeAt, BIT_MODULE)
  /\ fits_in_pe(FirstRowAt, SIZEOF_MODULE_TABLE)

\* where the looked-up string starts
ModuleNameAt == StringHeapAt + ReadIdx(FirstRowAt + 2, td.string)

\* the NULs inside the buffer at most 1024 bytes after p
NulsNear(p) == {q \in p..(data_size - 1) : q - p <= MAX_STRING_SCAN /\ Byte(q) = 0}

\* C16: the reader returns the string starting at base + index iff that position is
\* inside the buffer and a NUL lies inside the buffer at most 1024 bytes after it;
\* otherwise it returns absent.  (Seen through the Module case, which sets
\* module_name iff the reader returns a string.)
C16_StringReader ==
  ModuleLooked =>
    /\ Has(obj, Fld("module_name")) <=> (InBuf(ModuleNameAt) /\ NulsNear(ModuleNameAt) # {})
    /\ Has(obj, Fld("module_name"))
         => obj[Fld("module_name")]
              = Bytes(ModuleNameAt, Min(NulsNear(ModuleNameAt)) - ModuleNameAt)

\* a string whose terminator is exactly 1024 bytes after its start is returned
C16_Witness ==
  /\ ModuleLooked /\ stages = <<"tilde">>
  /\ Has(obj, Fld("module_name"))
  /\ Len(obj[Fld("module_name")]) = MAX_STRING_SCAN

(***************************************************************************)
(* The CustomAttribute chase (checked under Spec).  td.setters lists the   *)
(* rows that set typelib, each with the TypeRef name the chase resolved.   *)
(***************************************************************************)
\* C17 (as claimed): a CustomAttribute row sets typelib only if the TypeRef name its
\* chase resolves is present and is exactly "GuidAttribute".
C17_ExactName ==
  run = 1 =>
    \A k \in 1..Len(td.setters) :
      td.setters[k].named /\ td.setters[k].name = GUID_ATTRIBUTE

\* the last row that set typelib
LastSetter == td.setters[Len(td.setters)]

\* its value as C18 words it: empty if the first content byte is 0xFF or 0x00,
\* otherwise the n content bytes
ValueAsClaimed ==
  IF Byte(LastSetter.at) = 255 \/ Byte(LastSetter.at) = 0 THEN <<>>
  ELSE Bytes(LastSetter.at, LastSetter.n)

\* its value cut at the first NUL among the n content bytes
ValueUpToNul ==
  LET nuls == {q \in LastSetter.at..(LastSetter.at + LastSetter.n - 1) : Byte(q) = 0}
  IN IF Byte(LastSetter.at) = 255 THEN <<>>
     ELSE Bytes(LastSetter.at, IF nuls = {} THEN LastSetter.n
                                ELSE Min(nuls) - LastSetter.at)

PrefixAndLengthFit(p) == fits_in_pe(p, 4) /\ fits_in_pe(p, U32(p))

\* a kept row is reported at its counter
ReportedAt(e) ==
  /\ Has(obj, Key("resources", e.counter, "offset"))
  /\ obj[Key("resources", e.counter, "offset")] = e.res + 4
  /\ Has(obj, Key("resources", e.counter, "length"))
  /\ obj[Key("resources", e.counter, "length")] = U32(e.res)

MaxBody == 3

\* where the resource of ResImage starts
ResourceAt == SIZEOF_CLI_HEADER + 48 + 40 + 4

\* `off` is the row's Offset, `resVA` the RVA of the CLI header's Resources directory,
\* `len` the value of the length prefix, `avail` the bytes that follow the prefix
ResImage(off, resVA, len, avail) ==
  LET tilde == Le32(0) \o <<2, 0, 0, 1>> \o <<0, 0, 0, 0, 0, 1, 0, 0>> \o Zeros(8)
               \o Le32(1)
               \o (Le32(off) \o Le32(1) \o Le16(1) \o Le16(0))
      t == SIZEOF_CLI_HEADER + 48
      h == t + Len(tilde)
  IN CliHeader(0, resVA)
     \o (Le32(t) \o Le32(Len(tilde)) \o S_TILDE \o Zeros(2))
     \o (Le32(h) \o Le32(4) \o S_STRINGS \o Zeros(4))
     \o (Le32(h) \o Le32(0) \o S_BLOB \o Zeros(3))
     \o tilde \o <<0, 82, 0, 0>>
     \o Le32(len) \o [k \in 1..avail |-> 97]

InitResource ==
  /\ \E off \in {0, 1, ResourceAt, ResourceAt + 1}, resVA \in {ResourceAt, 0},
        len \in 0..(MaxBody + 5), avail \in 0..MaxBody :
       data = ResImage(off, resVA, len, avail)
  /\ \E limit \in {4096, 0} : pe = [PeNone EXCEPT !.rvaLimit = limit]
  /\ pc = "tilde"
  /\ obj = NoFields
  /\ oob = FALSE
  /\ com = [ComIdle EXCEPT !.headers = [NoHeaders EXCEPT !.tilde = SIZEOF_CLI_HEADER,
                                                          !.string = SIZEOF_CLI_HEADER + 12,
                                                          !.blob = SIZEOF_CLI_HEADER + 32]]
  /\ sh = ShIdle /\ gd = GdIdle /\ td = TdIdle /\ us = UsIdle
  /\ stages = <<>>
  /\ run = 1 /\ obj1 = NoFields /\ data2 = <<>>

NextResource == ParseTilde \/ TableManifestResource \/ Tilde2End

SpecResource == InitResource /\ [][NextResource]_vars

ResourceIdx(o) == {k[2] : k \in {x \in DOMAIN o : x[1] = "resources"}}

\* C20 (as claimed): every reported resource lies inside the buffer: its offset is at
\* least 4 and its offset plus its length is at most the buffer's size, also when the
\* resource base could not be converted.
C20_ResourcesInBuffer ==
  run = 1 =>
    \A k \in ResourceIdx(obj) :
      /\ obj[Key("resources", k, "offset")] >= 4
      /\ obj[Key("resources", k, "offset")] + obj[Key("resources", k, "length")]
           <= data_size

(***************************************************************************)
(* The AssemblyRef table (checked under Spec).                             *)
(***************************************************************************)
RefKey(i, f) == Key("assembly_refs", i, f)

\* row i (from 0) of the AssemblyRef table as the handler saw it
RefRow(i) == td.refs[i + 1]

\* the version tuple of row i is reported from the row's first four 16-bit fields
RefVersion(i) ==
  /\ Has(obj, RefKey(i, "version.major"))
  /\ obj[RefKey(i, "version.major")] = U16(RefRow(i).at)
  /\ obj[RefKey(i, "version.minor")] = U16(RefRow(i).at + 2)
  /\ obj[RefKey(i, "version.build_number")] = U16(RefRow(i).at + 4)
  /\ obj[RefKey(i, "version.revision_number")] = U16(RefRow(i).at + 6)

\* public_key_or_token of row i is reported iff the blob decodes, fits and is not empty
RefKeyToken(i) ==
  LET e == RefRow(i) IN
  /\ Has(obj, RefKey(i, "public_key_or_token"))
       <=> (e.decoded /\ e.fits /\ e.length > 0)
  /\ Has(obj, RefKey(i, "public_key_or_token"))
       => obj[RefKey(i, "public_key_or_token")] = Bytes(e.key_at, e.length)

RefCount ==
  /\ Has(obj, Fld("number_of_assembly_refs"))
  /\ obj[Fld("number_of_assembly_refs")] = Len(td.refs)
  /\ \A k \in DOMAIN obj : k[1] = "assembly_refs" => k[2] \in 0..(Len(td.refs) - 1)

AssemblyRefOver == run = 1 /\ Ran("tilde") /\ td.bit_check > BIT_ASSEMBLYREF /\ Len(td.refs) > 0

\* C21 (as claimed): every AssemblyRef row that passes its bounds check reports its
\* version tuple at its ordinal, its key iff the blob decodes, fits and is not empty,
\* and its name whenever the Name lookup succeeds, whatever the blob decode did;
\* number_of_assembly_refs is the number of such rows.
C21_NameIndependentOfKey ==
  AssemblyRefOver =>
    /\ RefCount
    /\ \A i \in 0..(Len(td.refs) - 1) :
         /\ RefVersion(i)
         /\ RefKeyToken(i)
         /\ Has(obj, RefKey(i, "name")) <=> RefRow(i).named

\* the same with the name reported only when the blob also decoded and fitted
NameAfterKey ==
  AssemblyRefOver =>
    /\ RefCount
    /\ \A i \in 0..(Len(td.refs) - 1) :
         /\ RefVersion(i)
         /\ RefKeyToken(i)
         /\ Has(obj, RefKey(i, "name"))
              <=> (RefRow(i).named /\ RefRow(i).decoded /\ RefRow(i).fits)
         /\ Has(obj, RefKey(i, "name"))
              => obj[RefKey(i, "name")] = CStr(RefRow(i).name_at)

(***************************************************************************)
(* The arrays filled through a running counter (checked under Spec).       *)
(***************************************************************************)
\* the indices at which entries of an array were reported
ArrayIdx(family) == {k[2] : k \in {x \in DOMAIN obj : x[1] = family}}

\* the rows of a handler's log that were kept
KeptRows(log) == {k \in 1..Len(log) : log[k].kept}

\* the array has entries exactly at 0 .. number_of_X - 1, number_of_X is the number of
\* kept rows, and each kept row was reported at the number of kept rows before it
Dense(family, log) ==
  IF Has(obj, Fld("number_of_" \o family))
  THEN /\ obj[Fld("number_of_" \o family)] = Cardinality(KeptRows(log))
       /\ ArrayIdx(family) = 0..(Cardinality(KeptRows(log)) - 1)
       /\ \A k \in KeptRows(log) :
            log[k].counter = Cardinality({j \in KeptRows(log) : j < k})
  ELSE ArrayIdx(family) = {} /\ log = <<>>

\* a Constant row is kept iff its type is string and its blob decodes and ends before
\* the last byte of the buffer (the handler's bounds test); its value is the blob
ConstantsKept ==
  \A k \in 1..Len(td.consts) :
    LET e == td.consts[k] IN
    /\ e.kept <=> (Byte(e.at) = ELEMENT_TYPE_STRING /\ e.decoded
                   /\ e.value_at + e.length < data_size)
    /\ e.kept => obj[Key("constants", e.counter, "")] = Bytes(e.value_at, e.length)

\* a ModuleRef row is kept iff its name resolves; its value is the name
ModuleRefsKept ==
  \A k \in 1..Len(td.modrefs) :
    LET e == td.modrefs[k]
        name == GetString(ReadIdx(e.at, td.string)) IN
    /\ e.kept <=> name # NULL
    /\ e.kept => obj[Key("modulerefs", e.counter, "")] = CStr(name)

\* a FieldRVA row is kept iff its RVA converts; its value is the file offset
FieldOffsetsKept ==
  \A k \in 1..Len(td.rvas) :
    LET e == td.rvas[k]
        field_offset == pe_rva_to_offset(U32(e.at)) IN
    /\ e.kept <=> field_offset >= 0
    /\ e.kept => obj[Key("field_offsets", e.counter, "")] = field_offset

\* a ManifestResource row is kept iff it passes the handler's filter
ResourcesKept ==
  \A k \in 1..Len(td.seen) :
    LET e == td.seen[k] IN
    /\ e.kept <=> (e.implementation = 0 /\ PrefixAndLengthFit(e.res))
    /\ e.kept => ReportedAt(e)

SkipThenKeep(log) == \E j, k \in 1..Len(log) : j < k /\ ~log[j].kept /\ log[k].kept

(***************************************************************************)
(* Constant tables of a few rows, each a string or a number whose value is *)
(* a good blob, an undecodable one, one that runs past the buffer, the     *)
(* empty blob on the last byte of the buffer, or an index past the buffer. *)
(***************************************************************************)
MaxConstRows == 3

\* 1: "hi"; 4: the prefix 0xE0; 5: "x"; 6: 119 bytes declared; 7: empty, on the last byte
ConstBlobs == <<0, 3, 104, 105, 224, 2, 120, 0>>

ConstRowKinds == {<<ty, idx>> : ty \in {ELEMENT_TYPE_STRING, 8}, idx \in {1, 4, 5, 7, 300}}

RECURSIVE ConstRowBytes(_)
ConstRowBytes(rows) ==
  IF rows = <<>> THEN <<>>
  ELSE (<<rows[1][1], 0>> \o Le16(0) \o Le16(rows[1][2])) \o ConstRowBytes(Tail(rows))

ConstImage(rows) ==
  LET tilde == Le32(0) \o <<2, 0, 0, 1>> \o <<0, 8, 0, 0, 0, 0, 0, 0>> \o Zeros(8)
               \o Le32(Len(rows)) \o ConstRowBytes(rows)
      t == SIZEOF_CLI_HEADER + 48
      h == t + Len(tilde)
  IN CliHeader(0, 0)
     \o (Le32(t) \o Le32(Len(tilde)) \o S_TILDE \o Zeros(2))
     \o (Le32(h) \o Le32(4) \o S_STRINGS \o Zeros(4))
     \o (Le32(h + 4) \o Le32(Len(ConstBlobs)) \o S_BLOB \o Zeros(3))
     \o tilde \o Zeros(4) \o ConstBlobs

\* dotnet_parse_tilde called on such a buffer
InitConstants ==
  /\ \E rows \in SeqsUpTo(ConstRowKinds, MaxConstRows) : data = ConstImage(rows)
  /\ pe = PeNone
  /\ pc = "tilde"
  /\ obj = NoFields
  /\ oob = FALSE
  /\ com = [ComIdle EXCEPT !.headers = [NoHeaders EXCEPT !.tilde = SIZEOF_CLI_HEADER,
                                                          !.string = SIZEOF_CLI_HEADER + 12,
                                                          !.blob = SIZEOF_CLI_HEADER + 32]]
  /\ sh = ShIdle /\ gd = GdIdle /\ td = TdIdle /\ us = UsIdle
  /\ stages = <<>>
  /\ run = 1 /\ obj1 = NoFields /\ data2 = <<>>

\* the whole-file inputs together with the Constant tables
SpecArrays == (Init \/ InitConstants) /\ [][Next]_vars

AssemblyKeys(o) == {k \in DOMAIN o : k[1] \in {"assembly.version.major",
                      "assembly.version.minor", "assembly.version.build_number",
                      "assembly.version.revision_number", "assembly.name",
                      "assembly.culture"}}

\* where the Assembly table was taken to start, once it has been handled
AssemblyAt == td.at[BIT_ASSEMBLY]

AssemblyNameAt == GetString(ReadIdx(AssemblyAt + 16 + td.blob, td.string))

AssemblyCultureAt == GetString(ReadIdx(AssemblyAt + 16 + td.blob + td.string, td.string))

\* C23: the assembly.* fields come from the first Assembly row alone: the version is
\* its four 16-bit fields, the name the string at its Name index if that resolves, the
\* culture the string at its Culture index iff that resolves to a non-empty string;
\* whatever the number of rows, nothing else of the table is reported.
C23_FirstAssemblyRow ==
  (run = 1 /\ AssemblyAt # NULL /\ td.count[BIT_ASSEMBLY] >= 1
   /\ fits_in_pe(AssemblyAt, AssemblyRowSize)) =>
    /\ obj[Fld("assembly.version.major")] = U16(AssemblyAt + 4)
    /\ obj[Fld("assembly.version.minor")] = U16(AssemblyAt + 6)
    /\ obj[Fld("assembly.version.build_number")] = U16(AssemblyAt + 8)
    /\ obj[Fld("assembly.version.revision_number")] = U16(AssemblyAt + 10)
    /\ Has(obj, Fld("assembly.name")) <=> AssemblyNameAt # NULL
    /\ Has(obj, Fld("assembly.name")) => obj[Fld("assembly.name")] = CStr(AssemblyNameAt)
    /\ Has(obj, Fld("assembly.culture"))
         <=> (AssemblyCultureAt # NULL /\ CStr(AssemblyCultureAt) # <<>>)
    /\ Has(obj, Fld("assembly.culture"))
         => obj[Fld("assembly.culture")] = CStr(AssemblyCultureAt)

\* the minimal assembly: version 1.0.0.0, name "A", a culture that resolves to the
\* empty string
C23_Witness ==
  /\ Done /\ run = 1 /\ AssemblyAt # NULL /\ td.count[BIT_ASSEMBLY] = 1
  /\ Has(obj, Fld("assembly.version.major")) /\ Has(obj, Fld("assembly.name"))
  /\ obj[Fld("assembly.version.major")] = 1
  /\ obj[Fld("assembly.version.minor")] = 0
  /\ obj[Fld("assembly.version.build_number")] = 0
  /\ obj[Fld("assembly.version.revision_number")] = 0
  /\ obj[Fld("assembly.name")] = <<65>>
  /\ AssemblyCultureAt # NULL
  /\ ~Has(obj, Fld("assembly.culture"))

(***************************************************************************)
(* The table cursor (checked under Spec).                                  *)
(***************************************************************************)
\* the row width the second pass computes for table b
RowWidth(b) ==
  LET S == td.string  B == td.blob  R == td.rows IN
  CASE b = BIT_MODULE -> ModuleRowSize
    [] b = BIT_TYPEREF -> CodedSize(R, ScopeBits, 2) + (S * 2)
    [] b = BIT_MEMBERREF -> CodedSize(R, MemberRefParentBits, 3) + S + B
    [] b = BIT_CONSTANT -> 1 + 1 + CodedSize(R, {BIT_PARAM, BIT_FIELD, BIT_PROPERTY}, 2) + B
    [] b = BIT_CUSTOMATTRIBUTE ->
         CodedSize(R, CustomAttributeBits, 5)
           + CodedSize(R, {BIT_METHODDEF, BIT_MEMBERREF}, 3) + B
    [] b = BIT_MODULEREF -> S
    [] b = BIT_FIELDRVA -> 4 + td.index_sizes[BIT_FIELD]
    [] b = BIT_ASSEMBLY -> AssemblyRowSize
    [] b = BIT_ASSEMBLYREF -> 2 + 2 + 2 + 2 + 4 + (B * 2) + (S * 2)
    [] b = BIT_MANIFESTRESOURCE -> 4 + 4 + S + CodedSize(R, {BIT_FILE, BIT_ASSEMBLYREF}, 2)
    [] OTHER -> SkipRowSize(b)

\* a step of the second pass that handles one present table
TableStep == pc = "tilde2" /\ td'.tables = td.tables + 1

\* C24 (as claimed): handling a present table of n rows moves the table cursor on by
\* exactly rowWidth x n, also when the table's first row or a later row fails its
\* bounds check.
C24_CursorAdvances ==
  [][TableStep => td'.table_offset = td.table_offset + RowWidth(td.bit_check) * num_rows]_vars

\* the same for every table but Module and Assembly
CursorAdvancesElsewhere ==
  [][(TableStep /\ td.bit_check \notin {BIT_MODULE, BIT_ASSEMBLY})
       => td'.table_offset = td.table_offset + RowWidth(td.bit_check) * num_rows]_vars

\* Module and Assembly leave the cursor where it is when their first row does not fit
FirstRowKeepsCursor ==
  [][(TableStep /\ td.bit_check \in {BIT_MODULE, BIT_ASSEMBLY})
       => td'.table_offset =
            IF fits_in_pe(td.table_offset,
                          IF td.bit_check = BIT_MODULE THEN SIZEOF_MODULE_TABLE
                          ELSE AssemblyRowSize)
            THEN td.table_offset + RowWidth(td.bit_check) * num_rows
            ELSE td.table_offset]_vars

(***************************************************************************)
(* Coded-index widths (checked under SpecWidths): #~ streams declaring     *)
(* TypeRef, TypeDef, MethodDef, MemberRef, CustomAttribute, AssemblyRef    *)
(* and ManifestResource tables with row counts on both sides of            *)
(* 65535 >> 3 and no row data.                                             *)
(***************************************************************************)
WidthCounts == {0, 1, 8191, 8192}

WidthImage(typedef, methoddef, memberref, assemblyref) ==
  LET tilde == Le32(0) \o <<2, 0, 0, 1>> \o <<70, 20, 0, 0, 8, 1, 0, 0>> \o Zeros(8)
               \o Le32(1) \o Le32(typedef) \o Le32(methoddef) \o Le32(memberref)
               \o Le32(1) \o Le32(assemblyref) \o Le32(1)
      t == SIZEOF_CLI_HEADER + 48
      h == t + Len(tilde)
  IN CliHeader(0, 0)
     \o (Le32(t) \o Le32(Len(tilde)) \o S_TILDE \o Zeros(2))
     \o (Le32(h) \o Le32(4) \o S_STRINGS \o Zeros(4))
     \o (Le32(h) \o Le32(4) \o S_BLOB \o Zeros(3))
     \o tilde \o Zeros(4)

InitWidths ==
  /\ \E c1 \in WidthCounts, c2 \in WidthCounts, c3 \in WidthCounts, c4 \in WidthCounts :
       data = WidthImage(c1, c2, c3, c4)
  /\ pe = PeNone
  /\ pc = "tilde"
  /\ obj = NoFields
  /\ oob = FALSE
  /\ com = [ComIdle EXCEPT !.headers = [NoHeaders EXCEPT !.tilde = SIZEOF_CLI_HEADER,
                                                          !.string = SIZEOF_CLI_HEADER + 12,
                                                          !.blob = SIZEOF_CLI_HEADER + 32]]
  /\ sh = ShIdle /\ gd = GdIdle /\ td = TdIdle /\ us = UsIdle
  /\ stages = <<>>
  /\ run = 1 /\ obj1 = NoFields /\ data2 = <<>>

\* the whole-file inputs together with the bare #~ streams
SpecWidths == (Init \/ InitWidths) /\ [][Next]_vars

\* ceil(log2(n)) for the numbers of tables a coded index selects from
CeilLog2(n) == CHOOSE k \in 0..5 : 2 ^ k >= n /\ (k = 0 \/ 2 ^ (k - 1) < n)

\* the width of a coded index over `bits` by the rule: 4 bytes iff the largest row
\* count among the tables exceeds 65535 >> ceil(log2(number of tables))
RuleSize(bits) ==
  IF max_rows(td.rows, bits) > 65535 \div (2 ^ CeilLog2(Cardinality(bits))) THEN 4 ELSE 2

\* the row width of table b with every coded-index column sized by the rule, over the
\* tables the handler takes the maximum of
RuleWidth(b) ==
  LET S == td.string  B == td.blob  X == td.index_sizes
      TypeDefOrRef == {BIT_TYPEDEF, BIT_TYPEREF, BIT_TYPESPEC} IN
  CASE b = BIT_TYPEREF -> RuleSize(ScopeBits) + (S * 2)
    [] b = BIT_TYPEDEF -> 4 + (S * 2) + RuleSize(TypeDefOrRef) + X[BIT_FIELD] + X[BIT_METHODDEF]
    [] b = BIT_INTERFACEIMPL -> X[BIT_TYPEDEF] + RuleSize(TypeDefOrRef)
    [] b = BIT_MEMBERREF -> RuleSize(MemberRefParentBits) + S + B
    [] b = BIT_CONSTANT -> 1 + 1 + RuleSize({BIT_PARAM, BIT_FIELD, BIT_PROPERTY}) + B
    [] b = BIT_CUSTOMATTRIBUTE ->
         RuleSize(CustomAttributeBits) + RuleSize({BIT_METHODDEF, BIT_MEMBERREF}) + B
    [] b = BIT_FIELDMARSHAL -> RuleSize({BIT_FIELD, BIT_PARAM}) + B
    [] b = BIT_DECLSECURITY -> 2 + RuleSize({BIT_TYPEDEF, BIT_METHODDEF, BIT_ASSEMBLY}) + B
    [] b = BIT_EVENT -> 2 + S + RuleSize(TypeDefOrRef)
    [] b = BIT_METHODSEMANTICS -> 2 + X[BIT_METHODDEF] + RuleSize({BIT_EVENT, BIT_PROPERTY})
    [] b = BIT_METHODIMPL -> X[BIT_TYPEDEF] + (RuleSize({BIT_METHODDEF, BIT_MEMBERREF}) * 2)
    [] b = BIT_IMPLMAP -> 2 + RuleSize({BIT_FIELD, BIT_METHODDEF}) + S + X[BIT_MODULEREF]
    [] b = BIT_EXPORTEDTYPE ->
         4 + 4 + (S * 2) + RuleSize({BIT_FILE, BIT_ASSEMBLYREF, BIT_EXPORTEDTYPE})
    [] b = BIT_MANIFESTRESOURCE -> 4 + 4 + S + RuleSize({BIT_FILE, BIT_ASSEMBLYREF})
    [] b = BIT_GENERICPARAM -> 2 + 2 + RuleSize({BIT_TYPEDEF, BIT_METHODDEF}) + S
    [] b = BIT_METHODSPEC -> RuleSize({BIT_METHODDEF, BIT_MEMBERREF}) + B
    [] b = BIT_GENERICPARAMCONSTRAINT -> X[BIT_GENERICPARAM] + RuleSize(TypeDefOrRef)
    [] OTHER -> RowWidth(b)

\* the tables whose rows have a coded-index column
CodedTables ==
  {BIT_TYPEREF, BIT_TYPEDEF, BIT_INTERFACEIMPL, BIT_MEMBERREF, BIT_CONSTANT,
   BIT_CUSTOMATTRIBUTE, BIT_FIELDMARSHAL, BIT_DECLSECURITY, BIT_EVENT,
   BIT_METHODSEMANTICS, BIT_METHODIMPL, BIT_IMPLMAP, BIT_EXPORTEDTYPE,
   BIT_MANIFESTRESOURCE, BIT_GENERICPARAM, BIT_METHODSPEC, BIT_GENERICPARAMCONSTRAINT}

\* the tables with a column whose tag width in the handler is not
\* ceil(log2(number of tables)) and whose referenced tables all come earlier or are
\* absent: MemberRef (Class) and CustomAttribute (Type)
WiderTag == {BIT_MEMBERREF, BIT_CUSTOMATTRIBUTE}

\* C25 (as claimed): in every table handler each coded-index column is 4 bytes wide iff
\* the largest row count among the tables it can reference exceeds 65535 >> tagBits,
\* tagBits = ceil(log2(number of those tables)), MemberRef.Class, CustomAttribute.Type
\* and ManifestResource.Implementation included: the handler steps over rows of
\* exactly that width.
C25_WidthRule ==
  [][(TableStep /\ td.bit_check \in CodedTables)
       => td'.table_offset = td.table_offset + RuleWidth(td.bit_check) * num_rows]_vars

\* the rule holds for the other coded-index columns
WidthRuleElsewhere ==
  [][(TableStep /\ td.bit_check \in CodedTables \ WiderTag)
       => td'.table_offset = td.table_offset + RuleWidth(td.bit_check) * num_rows]_vars

(***************************************************************************)
(* The CustomAttribute chase, row by row (checked under Spec).             *)
(***************************************************************************)
\* how many of n rows of width w starting at t lie inside the buffer
RowsInside(t, w, n) ==
  IF t < 0 \/ t > data_size THEN 0
  ELSE IF (data_size - t) \div w < n THEN (data_size - t) \div w ELSE n

\* a step in which the CustomAttribute handler walks its rows
ChaseStep ==
  /\ TableStep /\ td.bit_check = BIT_CUSTOMATTRIBUTE
  /\ td.typeref_ptr # NULL /\ td.memberref_ptr # NULL

\* C26 (as claimed): a CustomAttribute row that fails a step of the chase is abandoned
\* alone: the handler examines every row of the table that fits the buffer.
C26_ChaseRowLocal ==
  [][ChaseStep => td'.iters = RowsInside(td.table_offset, RowWidth(BIT_CUSTOMATTRIBUTE),
                                         num_rows)]_vars

\* the MemberRef row a CustomAttribute row at p selects, and the TypeRef row that one
\* selects
ChasedMemberRef(p) ==
  td.memberref_ptr
    + Mul32(td.memberref_row_size,
            Dec(ReadIdxShr3(p + CodedSize(td.rows, CustomAttributeBits, 5),
                            CodedSize(td.rows, {BIT_METHODDEF, BIT_MEMBERREF}, 3))))

ChasedTypeRef(p) ==
  td.typeref_ptr
    + Mul32(td.typeref_row_size, Dec(ReadIdxShr3(ChasedMemberRef(p), ClassIndexSize)))

\* the walk stops early only at a row whose MemberRef row or TypeRef row is outside
\* the buffer
ChaseStopsOnlyOutside ==
  [][ChaseStep =>
       LET w == RowWidth(BIT_CUSTOMATTRIBUTE)
           p == td.table_offset + w * td'.iters IN
       \/ td'.iters = RowsInside(td.table_offset, w, num_rows)
       \/ /\ td'.iters < RowsInside(td.table_offset, w, num_rows)
          /\ \/ ~fits_in_pe(ChasedMemberRef(p), td.memberref_row_size)
             \/ ~fits_in_pe(ChasedTypeRef(p), td.typeref_row_size)]_vars

(***************************************************************************)
(* The null Type index (checked under SpecChase): the whole-file inputs    *)
(* and the sample image with the first CustomAttribute row's Type set to   *)
(* tag 3 (MemberRef) with row index 0, 1, 2 and 3.                         *)
(***************************************************************************)
\* where the Type column of the sample image's first CustomAttribute row is
FirstTypeAt == Len(Image(FALSE)) - Len(StringsHeap \o UsHeap \o GuidHeap \o BlobHeap)
               - Len(Tables(0)) + 10 + 12 + 14 + 12 + 12 + 2

ChaseTypes == {3 + 8 * k : k \in 0..3}

InitChase ==
  /\ \E v \in ChaseTypes : data = Damaged(Image(FALSE), FirstTypeAt + 1, v)
  /\ pe = PeImage
  /\ data2 = <<>>
  /\ InitLocals

SpecChase == (Init \/ InitChase) /\ [][Next]_vars

\* C27 (as claimed): a CustomAttribute row whose Type has row index 0 is skipped and
\* never sets typelib; row index 0 and row index 1 are not the same MemberRef row.
C27_NullTypeSkipped ==
  run = 1 => \A k \in 1..Len(td.setters) : td.setters[k].type # 0

\* a nonzero row index k selects the k-th MemberRef row
NonNullTypeResolves ==
  run = 1 =>
    \A k \in 1..Len(td.setters) :
      td.setters[k].type > 0
        => td.setters[k].memberref
             = td.memberref_ptr + Mul32(td.memberref_row_size, td.setters[k].type - 1)

(***************************************************************************)
(* The width of MemberRef.Class (checked under SpecClass): the whole-file  *)
(* inputs and the sample image with a ModuleRef row count between          *)
(* 65535 >> 3 and the row-count cap, laid out accordingly.                 *)
(***************************************************************************)
ClassCounts == {8192, 9000, MAX_ROWS}

\* the row counts of the sample image with `moduleref` ModuleRef rows
WideCounts(moduleref) ==
  Le32(1) \o Le32(2) \o Le32(1) \o Le32(2) \o Le32(2) \o Le32(2) \o Le32(moduleref)
  \o Le32(1) \o Le32(1) \o Le32(1) \o Le32(2)

\* the rows of the sample image with MemberRef.Class and CustomAttribute.Parent in 4
\* bytes, as that many ModuleRef rows make the handlers lay them out
WideTables(entry) ==
  SubSeq(Tables(entry), 1, 10 + 12 + 14)
  \o (Le32(9) \o Le16(0) \o Le16(0)) \o (Le32(17) \o Le16(0) \o Le16(0))
  \o SubSeq(Tables(entry), 10 + 12 + 14 + 12 + 1, 10 + 12 + 14 + 12 + 12)
  \o (Le32(46) \o Le16(11) \o Le16(5)) \o (Le32(46) \o Le16(19) \o Le16(19))
  \o SubSeq(Tables(entry), 10 + 12 + 14 + 12 + 12 + 12 + 1, Len(Tables(entry)))

WideImage(moduleref) ==
  LET entry == SIZEOF_CLI_HEADER
      res == entry + Len(EntryStub)
      root == res + Len(Resource)
      tilde == TildeHeader \o WideCounts(moduleref) \o WideTables(entry)
      t == Len(MetadataRoot) + Len(StreamHeaders(0, 0, 0, 0, 0, 0))
      s0 == t + Len(tilde)
      u == s0 + Len(StringsHeap)
      g == u + Len(UsHeap)
      b == g + Len(GuidHeap)
  IN CliHeader(root, res) \o EntryStub \o Resource \o MetadataRoot
     \o StreamHeaders(t, s0, u, g, b, Len(tilde))
     \o tilde \o StringsHeap \o UsHeap \o GuidHeap \o BlobHeap

InitClass ==
  /\ \E c \in ClassCounts : data = WideImage(c)
  /\ pe = PeImage
  /\ data2 = <<>>
  /\ InitLocals

SpecClass == (Init \/ InitClass) /\ [][Next]_vars

\* the width of the Class column in the MemberRef row width of the MemberRef handler
ClassLayoutSize == td.memberref_row_size - td.string - td.blob

ChaseCountsCapped ==
  \A b \in MemberRefParentBits \cup {BIT_MEMBERREF} : td.rows[b] <= MAX_ROWS

\* C28 (as claimed): whenever the row counts of MethodDef, ModuleRef, TypeRef, TypeSpec
\* and MemberRef are at most 10000, the chase reads a MemberRef row's Class with the
\* width that column has in the MemberRef row width.
C28_ClassWidthConsistent ==
  (run = 1 /\ ChaseCountsCapped) =>
    \A k \in 1..Len(td.setters) : td.setters[k].class_size = ClassLayoutSize

\* the two widths are equal whenever those row counts are at most 65535 >> 3
ClassWidthConsistentBelow ==
  (run = 1 /\ \A b \in MemberRefParentBits \cup {BIT_MEMBERREF} : td.rows[b] <= 8191) =>
    \A k \in 1..Len(td.setters) : td.setters[k].class_size = ClassLayoutSize

(***************************************************************************)
(* Present tables without rows (checked under Spec).                       *)
(***************************************************************************)
\* table b was present and handled with a declared row count of 0
Rowless(b) == td.at[b] # NULL /\ td.count[b] = 0

\* the tables whose handler walks its rows in a loop report nothing when rowless
LoopTablesRowless ==
  /\ Rowless(BIT_CONSTANT) => ArrayIdx("constants") = {}
  /\ Rowless(BIT_CUSTOMATTRIBUTE) => (td.setters = <<>> /\ ~Has(obj, Fld("typelib")))
  /\ Rowless(BIT_MODULEREF) => ArrayIdx("modulerefs") = {}
  /\ Rowless(BIT_FIELDRVA) => ArrayIdx("field_offsets") = {}
  /\ Rowless(BIT_ASSEMBLYREF) => ArrayIdx("assembly_refs") = {}
  /\ Rowless(BIT_MANIFESTRESOURCE) => ArrayIdx("resources") = {}

\* C29 (as claimed): a present table with a declared row count of 0 has no value field
\* reported from it, Module and Assembly included: the bytes at the cursor, which
\* belong to the next table, are not read as a row of it.
C29_RowlessTablesSilent ==
  run = 1 =>
    /\ Rowless(BIT_MODULE) => ~Has(obj, Fld("module_name"))
    /\ Rowless(BIT_ASSEMBLY) => AssemblyKeys(obj) = {}
    /\ LoopTablesRowless

\* the same for the tables handled by a loop over their rows
RowlessLoopTablesSilent == run = 1 => LoopTablesRowless
====
